---- MODULE Spec2Model ----
(***************************************************************************)
(* A model of the n8n FFmpeg nodes of yambal/n8n-node-ffmpeg:              *)
(*   src/nodes/Ffmpeg/Ffmpeg.node.ts            (Ffmpeg.execute)           *)
(*   src/nodes/AudioConvert/AudioConvert.node.ts (AudioConvert.execute)    *)
(*                                                                         *)
(* Strings are sequences of tokens; "." and "/" are tokens of their own,   *)
(* so split('.') and path.join act on them as they do on characters.       *)
(* Durations are rationals: a duration of k ticks is k/TicksPerSec seconds.*)
(* A step of an execution is the code between two awaits.                  *)
(***************************************************************************)
EXTENDS Integers, Sequences, FiniteSets, TLC

VARIABLES
    st,      \* st[e]: the local state of execution e of a node's execute()
    fs,      \* the file system under the temp directory: path -> content
    uuids,   \* how many ids crypto.randomUUID() has handed out
    temps,   \* history: every temp path an execution has computed
    mix,     \* the mix computation on its own (MixSpec)
    conv     \* the format and argument computation on its own (ConvSpec)

vars == <<st, fs, uuids, temps, mix, conv>>

(***************************************************************************)
(* Bounds of the model.                                                    *)
(***************************************************************************)
MaxItems == 2
MaxConcItems == 1
MaxDur == 2
VolSteps == 2
TicksPerMs == 4

\* Math.round(narDelay * 1000): milliseconds in a second.
MsPerSec == 1000
TicksPerSec == MsPerSec * TicksPerMs

Execs == {1, 2}

(***************************************************************************)
(* Strings, extensions and paths.                                          *)
(***************************************************************************)
RECURSIVE SplitFrom(_, _, _, _)
SplitFrom(s, sep, parts, cur) ==
    IF s = <<>> THEN Append(parts, cur)
    ELSE IF Head(s) = sep
         THEN SplitFrom(Tail(s), sep, Append(parts, cur), <<>>)
         ELSE SplitFrom(Tail(s), sep, parts, Append(cur, Head(s)))

\* String.prototype.split(sep): always at least one part.
Split(s, sep) == SplitFrom(s, sep, <<>>, <<>>)

\* String.prototype.lastIndexOf(tok), 0-based; -1 when absent.
LastIndexOf(s, tok) ==
    LET hits == {k \in 1..Len(s) : s[k] = tok}
    IN  IF hits = {} THEN -1
        ELSE (CHOOSE k \in hits : \A h \in hits : h <= k) - 1

LowerToken(tok) ==
    CASE tok = "MP3" -> "mp3"
      [] tok = "WAV" -> "wav"
      [] OTHER -> tok

toLowerCase(s) == [k \in 1..Len(s) |-> LowerToken(s[k])]

mimeMap(mimeType) ==
    CASE mimeType = "audio/mpeg" -> <<"mp3">>
      [] mimeType = "audio/wav" -> <<"wav">>
      [] mimeType = "audio/x-wav" -> <<"wav">>
      [] mimeType = "audio/ogg" -> <<"ogg">>
      [] mimeType = "audio/flac" -> <<"flac">>
      [] mimeType = "audio/aac" -> <<"aac">>
      [] mimeType = "audio/mp4" -> <<"m4a">>
      [] OTHER -> <<>>

\* Mutant: the extension taken from the name as it is written.
getExtensionFromBinaryNotLowered(binary) ==
    LET parts == Split(binary.fileName, ".")
        byMime == IF mimeMap(binary.mimeType) # <<>>
                  THEN mimeMap(binary.mimeType) ELSE <<"bin">>
    IN  IF binary.fileName # <<>> /\ Len(parts) > 1
        THEN parts[Len(parts)]
        ELSE byMime

\* An absent fileName is the empty string here: both are falsy.
getExtensionFromBinary(binary) ==
    LET parts == Split(binary.fileName, ".")
        byMime == IF mimeMap(binary.mimeType) # <<>>
                  THEN mimeMap(binary.mimeType) ELSE <<"bin">>
    IN  IF binary.fileName # <<>> /\ Len(parts) > 1
        THEN toLowerCase(parts[Len(parts)])
        ELSE byMime

replaceExtension(fileName, newExt) ==
    LET dotIndex == LastIndexOf(fileName, ".")
        baseName == IF dotIndex > 0 THEN SubSeq(fileName, 1, dotIndex) ELSE fileName
    IN  baseName \o <<".">> \o newExt

\* Mutant: the table without its m4a entry.
MIME_TYPESWithoutM4a(ext) ==
    CASE ext = <<"mp3">> -> "audio/mpeg"
      [] ext = <<"wav">> -> "audio/wav"
      [] ext = <<"ogg">> -> "audio/ogg"
      [] ext = <<"flac">> -> "audio/flac"
      [] ext = <<"aac">> -> "audio/aac"
      [] OTHER -> "application/octet-stream"

MIME_TYPES(ext) ==
    CASE ext = <<"mp3">> -> "audio/mpeg"
      [] ext = <<"wav">> -> "audio/wav"
      [] ext = <<"ogg">> -> "audio/ogg"
      [] ext = <<"flac">> -> "audio/flac"
      [] ext = <<"aac">> -> "audio/aac"
      [] ext = <<"m4a">> -> "audio/mp4"
      [] OTHER -> "application/octet-stream"

\* AudioConvert.node.ts has copies of its own of the table and of the two
\* functions: lines 17-24, 211-228 and 230-234.
AudioConvert_MIME_TYPES(ext) ==
    CASE ext = <<"mp3">> -> "audio/mpeg"
      [] ext = <<"wav">> -> "audio/wav"
      [] ext = <<"ogg">> -> "audio/ogg"
      [] ext = <<"flac">> -> "audio/flac"
      [] ext = <<"aac">> -> "audio/aac"
      [] ext = <<"m4a">> -> "audio/mp4"
      [] OTHER -> "application/octet-stream"

AudioConvert_mimeMap(mimeType) ==
    CASE mimeType = "audio/mpeg" -> <<"mp3">>
      [] mimeType = "audio/wav" -> <<"wav">>
      [] mimeType = "audio/x-wav" -> <<"wav">>
      [] mimeType = "audio/ogg" -> <<"ogg">>
      [] mimeType = "audio/flac" -> <<"flac">>
      [] mimeType = "audio/aac" -> <<"aac">>
      [] mimeType = "audio/mp4" -> <<"m4a">>
      [] OTHER -> <<>>

AudioConvert_getExtensionFromBinary(binary) ==
    LET parts == Split(binary.fileName, ".")
    IN  IF binary.fileName # <<>> /\ Len(parts) > 1
        THEN toLowerCase(parts[Len(parts)])
        ELSE IF AudioConvert_mimeMap(binary.mimeType) # <<>>
             THEN AudioConvert_mimeMap(binary.mimeType)
             ELSE <<"bin">>

AudioConvert_replaceExtension(fileName, newExt) ==
    LET dotIndex == LastIndexOf(fileName, ".")
    IN  (IF dotIndex > 0 THEN SubSeq(fileName, 1, dotIndex) ELSE fileName)
        \o <<".">> \o newExt

\* os.tmpdir(): one directory, here /tmp.
tmpdir == << <<"tmp">> >>

RECURSIVE Normalize(_, _)
\* path.normalize on segments: "" and "." are dropped, ".." pops.
Normalize(segs, acc) ==
    IF segs = <<>> THEN acc
    ELSE LET s == Head(segs) IN
         IF s = <<>> \/ s = <<".">> THEN Normalize(Tail(segs), acc)
         ELSE IF s = <<".", ".">>
              THEN Normalize(Tail(segs),
                             IF acc = <<>> THEN acc ELSE SubSeq(acc, 1, Len(acc) - 1))
              ELSE Normalize(Tail(segs), Append(acc, s))

\* path.join(dir, name): the normalized segments; a trailing separator of
\* name is kept, as an empty last segment.
join(dir, name) ==
    LET raw == Split(name, "/")
        body == Normalize(raw, dir)
    IN  IF Len(raw) > 1 /\ raw[Len(raw)] = <<>> THEN Append(body, <<>>) ELSE body

\* Mutant: the same id for every item.
randomUUIDAsFixed(k) == "1"

\* crypto.randomUUID(): the k-th id handed out.  Version-4 UUIDs are taken
\* to be distinct from each other.
randomUUID(k) == ToString(k + 1)

tempName(role, id, ext) == <<"ffmpeg_", role, "_", id, ".">> \o ext

(***************************************************************************)
(* Numbers.  A number is a reduced fraction <<n, d>> with d > 0; d = 0      *)
(* marks what is not a number: NaN, and the result of a division by zero.  *)
(***************************************************************************)
Abs(x) == IF x < 0 THEN -x ELSE x

RECURSIVE GCD(_, _)
GCD(a, b) == IF b = 0 THEN a ELSE GCD(b, a % b)

Frac(n, d) ==
    IF d = 0 THEN <<0, 0>>
    ELSE LET g == GCD(Abs(n), Abs(d))
             sgn == IF d < 0 THEN -1 ELSE 1
         IN  <<sgn * (n \div g), sgn * (d \div g)>>

Whole(n) == <<n, 1>>

\* A count of ticks is a natural number; NaN is the count that is not a
\* number, what parseFloat makes of a text that holds none.
NaN == -1
\* a + b on counts of ticks: NaN when an operand is NaN.
Plus(a, b) == IF a = NaN \/ b = NaN THEN NaN ELSE a + b

\* k ticks, in seconds; NaN is the fraction <<0, 0>>.
Secs(k) == IF k = NaN THEN <<0, 0>> ELSE Frac(k, TicksPerSec)

Defined(x) == x[2] # 0
AddQ(x, y) == IF Defined(x) /\ Defined(y)
              THEN Frac(x[1] * y[2] + y[1] * x[2], x[2] * y[2]) ELSE <<0, 0>>
SubQ(x, y) == IF Defined(x) /\ Defined(y)
              THEN Frac(x[1] * y[2] - y[1] * x[2], x[2] * y[2]) ELSE <<0, 0>>
MulQ(x, y) == IF Defined(x) /\ Defined(y)
              THEN Frac(x[1] * y[1], x[2] * y[2]) ELSE <<0, 0>>
DivQ(x, y) == IF Defined(x) /\ Defined(y)
              THEN Frac(x[1] * y[2], x[2] * y[1]) ELSE <<0, 0>>
LtQ(x, y) == x[1] * y[2] < y[1] * x[2]
LeQ(x, y) == x[1] * y[2] <= y[1] * x[2]

\* Mutant: the delay truncated instead of rounded.
MathRoundAsFloor(n, d) == n \div d

\* Math.round of the fraction n/d (d > 0): floor(n/d + 1/2).
MathRound(n, d) == (2 * n + d) \div (2 * d)

(***************************************************************************)
(* mixNarrationBgm: the timeline, the envelope expression and the filter   *)
(* graph.  An expression is a tree: the text `if(lt(t,B),X,Y)` is the node *)
(* [op |-> "if_lt_t", bound |-> B, then |-> X, else |-> Y].                 *)
(***************************************************************************)
Num(q) == [op |-> "num", val |-> q]
T == [op |-> "t"]
Bin(o, l, r) == [op |-> o, left |-> l, right |-> r]
IfLtT(b, x, y) == [op |-> "if_lt_t", bound |-> b, then |-> x, else |-> y]

\* Mutant: the fade-out left out of the total duration.
CalculateTimingNoFadeOut(p, narDuration) ==
    LET fadeInEnd == p.fadeInSeconds
        introEnd == fadeInEnd + p.introSeconds
        fadeDownEnd == introEnd + p.fadeDownSeconds
        narEnd == fadeDownEnd + narDuration
    IN  [fadeInEnd |-> fadeInEnd, introEnd |-> introEnd,
         fadeDownEnd |-> fadeDownEnd, narDelay |-> fadeDownEnd,
         narEnd |-> narEnd, totalDuration |-> narEnd,
         delayMs |-> (2 * fadeDownEnd * MsPerSec + TicksPerSec) \div (2 * TicksPerSec)]

\* Lines 746-752.  p: the parameters, in ticks; narDuration in ticks.
CalculateTiming(p, narDuration) ==
    LET fadeInEnd == p.fadeInSeconds
        introEnd == fadeInEnd + p.introSeconds
        fadeDownEnd == introEnd + p.fadeDownSeconds
        narDelay == fadeDownEnd
        narEnd == Plus(narDelay, narDuration)
        totalDuration == Plus(narEnd, p.fadeOutSeconds)
    IN  [fadeInEnd |-> fadeInEnd, introEnd |-> introEnd,
         fadeDownEnd |-> fadeDownEnd, narDelay |-> narDelay,
         narEnd |-> narEnd, totalDuration |-> totalDuration,
         delayMs |-> MathRound(narDelay * MsPerSec, TicksPerSec)]

\* ${bgmVolume}: bgmVolume is p.bgmVolume / VolSteps.
Vol(p) == Frac(p.bgmVolume, VolSteps)

\* Mutant: the fade-out ramp starts from full volume, not from bgmVolume.
FadeOutTermFromFullVolume(p, tm) ==
    Bin("-", Num(Whole(1)),
        Bin("/", Bin("-", T, Num(Secs(tm.narEnd))),
                 Num(Secs(p.fadeOutSeconds))))

\* `${bgmVolume}*(1-(t-${narEnd})/${fadeOutSeconds})`
FadeOutTerm(p, tm) ==
    Bin("*", Num(Vol(p)),
        Bin("-", Num(Whole(1)),
            Bin("/", Bin("-", T, Num(Secs(tm.narEnd))),
                     Num(Secs(p.fadeOutSeconds)))))

\* Mutant: the fade-down ramp measured from fadeInEnd instead of introEnd.
FadeDownTermFromFadeInEnd(p, tm) ==
    Bin("-", Num(Whole(1)),
        Bin("/", Bin("*", Bin("-", Num(Whole(1)), Num(Frac(p.bgmVolume, VolSteps))),
                          Bin("-", T, Num(Secs(tm.fadeInEnd)))),
                 Num(Secs(p.fadeDownSeconds))))

\* `1.0-(1.0-${bgmVolume})*(t-${introEnd})/${fadeDownSeconds}`
FadeDownTerm(p, tm) ==
    Bin("-", Num(Whole(1)),
        Bin("/", Bin("*", Bin("-", Num(Whole(1)), Num(Vol(p))),
                          Bin("-", T, Num(Secs(tm.introEnd)))),
                 Num(Secs(p.fadeDownSeconds))))

\* `t/${fadeInSeconds}`
FadeInTerm(p) == Bin("/", T, Num(Secs(p.fadeInSeconds)))

\* Lines 755-766: the envelope, built inside-out.
VolExpr0 == Num(Whole(0))
\* Mutant: the fade-out ramp emitted whatever its duration.
VolExpr1Unguarded(p, tm) ==
    IfLtT(Secs(tm.narEnd + p.fadeOutSeconds),
          Bin("*", Num(Frac(p.bgmVolume, VolSteps)),
              Bin("-", Num(Whole(1)),
                  Bin("/", Bin("-", T, Num(Secs(tm.narEnd))),
                           Num(Secs(p.fadeOutSeconds))))),
          Num(Whole(0)))
VolExpr1(p, tm) ==
    IF p.fadeOutSeconds > 0
    THEN IfLtT(Secs(Plus(tm.narEnd, p.fadeOutSeconds)), FadeOutTerm(p, tm), VolExpr0)
    ELSE VolExpr0
VolExpr2(p, tm) == IfLtT(Secs(tm.narEnd), Num(Vol(p)), VolExpr1(p, tm))
VolExpr3(p, tm) ==
    IF p.fadeDownSeconds > 0
    THEN IfLtT(Secs(tm.fadeDownEnd), FadeDownTerm(p, tm), VolExpr2(p, tm))
    ELSE VolExpr2(p, tm)
VolExpr4(p, tm) == IfLtT(Secs(tm.introEnd), Num(Whole(1)), VolExpr3(p, tm))
BuildVolExpr(p, tm) ==
    IF p.fadeInSeconds > 0
    THEN IfLtT(Secs(tm.fadeInEnd), FadeInTerm(p), VolExpr4(p, tm))
    ELSE VolExpr4(p, tm)

\* Mutant: the loudness filter appended whatever mixNormalize holds.
MixChainAlwaysNormalized(p) ==
    [inputs |-> <<"nar", "bgm">>,
     filters |-> << [f |-> "amix", inputs |-> 2, duration |-> "longest",
                     normalize |-> 0],
                    [f |-> "loudnorm"] >>,
     output |-> "out"]

\* Lines 769-771: the mixer chain.
MixChain(p) ==
    [inputs |-> <<"nar", "bgm">>,
     filters |-> << [f |-> "amix", inputs |-> 2, duration |-> "longest",
                     normalize |-> 0] >>
                 \o (IF p.mixNormalize # "" THEN << [f |-> p.mixNormalize] >>
                     ELSE <<>>),
     output |-> "out"]

\* Mutant: the background trimmed at the end of the narration.
BuildFilterComplexTrimAtNarEnd(p, tm, volExpr) ==
    << [inputs |-> <<"0:a">>,
        filters |-> << [f |-> "adelay", delays |-> tm.delayMs, all |-> 1] >>,
        output |-> "nar"],
       [inputs |-> <<"1:a">>,
        filters |-> << [f |-> "atrim", start |-> Whole(0), end |-> Secs(tm.narEnd)],
                       [f |-> "asetpts", expr |-> "PTS-STARTPTS"],
                       [f |-> "volume", volume |-> volExpr, eval |-> "frame"] >>,
        output |-> "bgm"],
       [inputs |-> <<"nar", "bgm">>,
        filters |-> << [f |-> "amix", inputs |-> 2, duration |-> "longest",
                        normalize |-> 0] >>,
        output |-> "out"] >>

\* Lines 772-775: the filter graph, one record per chain.
BuildFilterComplex(p, tm, volExpr) ==
    << [inputs |-> <<"0:a">>,
        filters |-> << [f |-> "adelay", delays |-> tm.delayMs, all |-> 1] >>,
        output |-> "nar"],
       [inputs |-> <<"1:a">>,
        filters |-> << [f |-> "atrim", start |-> Whole(0),
                        end |-> Secs(tm.totalDuration)],
                       [f |-> "asetpts", expr |-> "PTS-STARTPTS"],
                       [f |-> "volume", volume |-> volExpr, eval |-> "frame"] >>,
        output |-> "bgm"],
       MixChain(p) >>

\* Mutant: the loop option written before the first input.
MixArgsLoopFirst(p, narPath, bgmPath, outputPath, filterComplex) ==
    << "-stream_loop", "-1", "-i", narPath, "-i", bgmPath,
       "-filter_complex", filterComplex, "-map", "[out]" >>
    \o (IF p.mixBitrate # "" THEN << "-b:a", p.mixBitrate >> ELSE <<>>)
    \o << "-y", outputPath >>

\* Lines 777-787.
MixArgs(p, narPath, bgmPath, outputPath, filterComplex) ==
    << "-i", narPath, "-stream_loop", "-1", "-i", bgmPath,
       "-filter_complex", filterComplex, "-map", "[out]" >>
    \o (IF p.mixBitrate # "" THEN << "-b:a", p.mixBitrate >> ELSE <<>>)
    \o << "-y", outputPath >>

\* Lines 812-824: the json of the output item.
MixJson(operation, p, narDuration, tm, outputSize) ==
    [operation |-> operation, narrationDuration |-> narDuration,
     fadeInSeconds |-> p.fadeInSeconds, introSeconds |-> p.introSeconds,
     fadeDownSeconds |-> p.fadeDownSeconds, bgmVolume |-> p.bgmVolume,
     fadeOutSeconds |-> p.fadeOutSeconds, totalDuration |-> tm.totalDuration,
     outputFormat |-> p.mixOutputFormat, outputSize |-> outputSize]

(***************************************************************************)
(* What ffmpeg does with the expression and the graph.                     *)
(***************************************************************************)
RECURSIVE Eval(_, _)
\* The value of an expression at time t (a number, in seconds); the first
\* branch whose test holds is taken.
Eval(x, t) ==
    CASE x.op = "num" -> x.val
      [] x.op = "t" -> t
      [] x.op = "+" -> AddQ(Eval(x.left, t), Eval(x.right, t))
      [] x.op = "-" -> SubQ(Eval(x.left, t), Eval(x.right, t))
      [] x.op = "*" -> MulQ(Eval(x.left, t), Eval(x.right, t))
      [] x.op = "/" -> DivQ(Eval(x.left, t), Eval(x.right, t))
      [] x.op = "if_lt_t" ->
            IF LtQ(t, x.bound) THEN Eval(x.then, t) ELSE Eval(x.else, t)

RECURSIVE Divisors(_)
\* The right operands of every "/" in an expression.
Divisors(x) ==
    CASE x.op \in {"num", "t"} -> {}
      [] x.op \in {"+", "-", "*"} -> Divisors(x.left) \cup Divisors(x.right)
      [] x.op = "/" -> {x.right} \cup Divisors(x.left) \cup Divisors(x.right)
      [] x.op = "if_lt_t" -> Divisors(x.then) \cup Divisors(x.else)

RECURSIVE Bounds(_)
\* The bounds of the if(lt(t,B),..) terms, outermost first.
Bounds(x) ==
    IF x.op = "if_lt_t" THEN <<x.bound>> \o Bounds(x.else) ELSE <<>>

\* amix=...:duration=longest over the delayed narration and the looped,
\* trimmed background: the length of the mix, in seconds.
MixLength(filterComplex, narDuration) ==
    LET narEndsAt == AddQ(Frac(filterComplex[1].filters[1].delays, MsPerSec),
                          Secs(narDuration))
        bgmEndsAt == filterComplex[2].filters[1].end
    IN  IF LtQ(narEndsAt, bgmEndsAt) THEN bgmEndsAt ELSE narEndsAt

(***************************************************************************)
(* The idle state of an execution, and of the mix computation.             *)
(***************************************************************************)
NoBinary == [fileName |-> <<>>, mimeType |-> ""]
NoError == [type |-> "", message |-> <<>>, itemIndex |-> -1]
NoFailure == [stderr |-> "", message |-> ""]
NoProc == [cmd |-> "", args |-> <<>>, timeout |-> 0]
NoParams == [fadeInSeconds |-> 0, introSeconds |-> 0, fadeDownSeconds |-> 0,
             bgmVolume |-> 0, fadeOutSeconds |-> 0, mixOutputFormat |-> <<>>,
             mixBitrate |-> "", mixNormalize |-> ""]
NoTiming == CalculateTiming(NoParams, 0)

MixIdle == [phase |-> "idle", p |-> NoParams, narDuration |-> 0, tm |-> NoTiming,
            volExpr |-> VolExpr0, filterComplex |-> <<>>, args |-> <<>>,
            json |-> <<>>]

NoOptions == [bitrate |-> "", sampleRate |-> 0, channels |-> 0, normalize |-> ""]

\* No input item: execute() has not taken one up.
NoItem == [json |-> [title |-> ""], binary |-> <<>>]

\* UrlToBinary: the options collection, both entries absent.
NoUrlOptions == [fileName |-> <<>>, mimeType |-> ""]

\* The locals of execute() before the first item, and between items.
Locals ==
    [operation |-> "", outputBinaryPropertyName |-> "",
     item |-> NoItem, binaryPropertyName |-> "",
     binaryData |-> NoBinary, bgmBinaryData |-> NoBinary,
     inputBuffer |-> <<>>, bgmBuffer |-> <<>>,
     inputExt |-> <<>>, bgmExt |-> <<>>, outputExt |-> <<>>,
     format |-> <<>>, opts |-> NoOptions, p |-> NoParams,
     id |-> "", inputPath |-> <<>>, bgmPath |-> <<>>, outputPath |-> <<>>,
     proc |-> NoProc, narDuration |-> 0, tm |-> NoTiming,
     outputBuffer |-> <<>>, error |-> NoError, log |-> <<>>,
     url |-> <<>>, options |-> NoUrlOptions, fileName |-> <<>>]

\* An execution that has not been invoked.
NotInvoked ==
    [node |-> "", pc |-> "idle", n |-> 0, i |-> 0, l |-> Locals,
     returnData |-> <<>>, thrown |-> NoError, unlinks |-> {}, leftBehind |-> FALSE]

\* execute() entered with n input items: lines 687-688.
Invoked(node, n) == [NotInvoked EXCEPT !.node = node, !.pc = "loop", !.n = n]

ConvIdle == [phase |-> "idle", node |-> "", l |-> Locals, returnData |-> <<>>]

LifeIdle == [e \in Execs |-> NotInvoked]

(***************************************************************************)
(* The inputs of an execution: the operation, the item's binary            *)
(* properties and the node parameters.                                     *)
(***************************************************************************)
Operations == {"convert", "changeBitrate", "audioConvert", "mixNarrationBgm"}
ConvertOperations == {"convert", "changeBitrate", "audioConvert"}
Nodes == {"Ffmpeg", "AudioConvert", "UrlToBinary"}
\* The nodes that work through temp files.
TempFileNodes == {"Ffmpeg", "AudioConvert"}

Binaries ==
    { [fileName |-> <<"song", ".", "MP3">>, mimeType |-> "audio/mpeg"],
      [fileName |-> <<>>, mimeType |-> "audio/x-wav"],
      [fileName |-> <<"a", ".", "b", "/", "c">>, mimeType |-> "text/plain"] }

\* The BGM of a mix: the same extension as the first narration above.
BgmBinaries == { [fileName |-> <<"loop", ".", "mp3">>, mimeType |-> "audio/mpeg"] }

OutputProperties == {"data"}
\* binaryPropertyName: the default and another name.
InputProperties == {"data", "audio"}
\* bgmBinaryPropertyName, at its default.
BgmProperty == "bgm"

\* An input item, getInputData()[i]: some json, a binary property that the
\* node does not look at, and the narration or audio and the BGM under their
\* names when they are there.
InputJson == [title |-> "episode"]
Cover == [fileName |-> <<"cover", ".", "png">>, mimeType |-> "image/png"]
InputItem(name, present, binary, bgmPresent, bgm) ==
    LET names == (IF present THEN {name} ELSE {})
                 \cup (IF bgmPresent THEN {BgmProperty} ELSE {})
                 \cup {"cover"}
    IN  [json |-> InputJson,
         binary |-> [n \in names |-> IF n = name THEN binary
                                     ELSE IF n = BgmProperty THEN bgm ELSE Cover]]

\* helpers.assertBinaryData(i, name) throws unless the item has the property.
HasBinary(item, name) == name \in DOMAIN item.binary
Formats == {<<"mp3">>, <<"wav">>}
\* acOutputFormat and AudioConvert's outputFormat: Keep Original is ''.
KeepOrFormats == {<<>>, <<"mp3">>}

OptionChoices ==
    { NoOptions,
      [bitrate |-> "128k", sampleRate |-> 44100, channels |-> 2,
       normalize |-> "loudnorm"] }
\* convert offers bitrate and sampleRate only.
ConvertOptionChoices ==
    { NoOptions, [NoOptions EXCEPT !.bitrate = "128k", !.sampleRate = 44100] }
Bitrates == {"128k"}

StepMixParams ==
    { [NoParams EXCEPT !.mixOutputFormat = <<"mp3">>],
      [fadeInSeconds |-> 2, introSeconds |-> 1, fadeDownSeconds |-> 1,
       bgmVolume |-> 1, fadeOutSeconds |-> 2, mixOutputFormat |-> <<"wav">>,
       mixBitrate |-> "128k", mixNormalize |-> "loudnorm"] }
\* What ffprobe prints on success: the duration of the narration, here one
\* tick (1 / TicksPerSec = 0.00025 s), 'N/A' for a file whose duration it
\* cannot tell, or nothing at all.
ProbeStdouts == { <<"0.00025", "\n">>, <<"N/A", "\n">>, <<>> }

RECURSIVE trim(_)
\* String.prototype.trim(): the leading and trailing line ends dropped.
trim(s) ==
    IF s = <<>> THEN s
    ELSE IF Head(s) = "\n" THEN trim(Tail(s))
    ELSE IF s[Len(s)] = "\n" THEN trim(SubSeq(s, 1, Len(s) - 1))
    ELSE s

\* parseFloat(text): the number the text begins with, in ticks; NaN when it
\* begins with none.
parseFloat(s) ==
    IF s # <<>> /\ Head(s) = "0.00025" THEN 1 ELSE NaN

\* What a failed child process leaves in err.stderr; '' is falsy.
StderrTexts == {"", "Invalid data found"}

\* The bytes of a binary property of item i of execution e.
ItemBytes(e, i, role) == <<"bytes", ToString(e), ToString(i), role>>
\* What ffmpeg writes from the files it was given.
Encoded(inputs) == <<"ffmpeg">> \o inputs

(***************************************************************************)
(* Errors.                                                                 *)
(***************************************************************************)
NodeOperationError(message, itemIndex) ==
    [type |-> "NodeOperationError", message |-> message, itemIndex |-> itemIndex]
\* An error of the host or of fs, passed on as it is.
PlainError(message) == [type |-> "Error", message |-> <<message>>, itemIndex |-> -1]

\* Mutant: the message built from err.message whatever err.stderr holds.
ChildFailedAsMessageOnly(prefix, err, i) ==
    NodeOperationError(<<prefix, err.message>>, i)

\* Lines 909-913 (and 737-741, 792-796): `${prefix}${err.stderr || err.message}`.
ChildFailed(prefix, err, i) ==
    NodeOperationError(<<prefix, IF err.stderr # "" THEN err.stderr ELSE err.message>>, i)

(***************************************************************************)
(* The file system and the event log of the current item.                  *)
(***************************************************************************)
Exists(path) == path \in DOMAIN fs
Written(path, data) == [q \in DOMAIN fs \cup {path} |-> IF q = path THEN data ELSE fs[q]]
Removed(path) == [q \in DOMAIN fs \ {path} |-> fs[q]]

Event(ev, what, ok) ==
    [ev |-> ev, what |-> what, ok |-> ok, cmd |-> "", err |-> NoFailure, data |-> <<>>]
ProcEvent(ev, cmd, ok, err) ==
    [ev |-> ev, what |-> <<>>, ok |-> ok, cmd |-> cmd, err |-> err, data |-> <<>>]
ReadEvent(what, ok, data) ==
    [ev |-> "read", what |-> what, ok |-> ok, cmd |-> "", err |-> NoFailure, data |-> data]

Logged(l, evs) == [l EXCEPT !.log = l.log \o evs]

Temp(e, i, role, path) == [e |-> e, i |-> i, role |-> role, path |-> path]

(***************************************************************************)
(* Leaving execute(), and the try/finally around an item.                  *)
(***************************************************************************)
\* An error outside the try: execute() rejects at once.
ThrowOut(x, err) == [x EXCEPT !.pc = "thrown", !.thrown = err]

\* Mutant: an error inside the try leaves execute() without the finally.
CaughtAsThrowOut(x, err, evs) ==
    [x EXCEPT !.pc = "thrown", !.thrown = err, !.l = Logged(x.l, evs)]

\* Lines 863/940 (722/830; AudioConvert 146/201): an error inside the try
\* runs the finally block before it leaves.
Caught(x, err, evs) ==
    [x EXCEPT !.pc = "unlinkInput", !.l = [Logged(x.l, evs) EXCEPT !.error = err]]

\* Mutant: the error of an item is dropped and the loop goes on.
AfterFinallyContinues(x) == [x EXCEPT !.pc = "loop", !.i = x.i + 1]

\* The end of the finally block: the pending error is rethrown, or the loop
\* goes on with the next item.
AfterFinally(x) ==
    IF x.l.error # NoError
    THEN [x EXCEPT !.pc = "thrown", !.thrown = x.l.error]
    ELSE [x EXCEPT !.pc = "loop", !.i = x.i + 1]

(***************************************************************************)
(* The conversions: Ffmpeg.execute lines 839-944 and AudioConvert.execute. *)
(***************************************************************************)
Flag(name, value) == IF value # "" THEN <<name, value>> ELSE <<>>
\* Mutant: a numeric option is passed on whatever its value, Auto included.
NumFlagAlways(name, value) == <<name, ToString(value)>>
NumFlag(name, value) == IF value # 0 THEN <<name, ToString(value)>> ELSE <<>>

\* Ffmpeg.node.ts lines 868-903.
FfmpegArgs(operation, opts, inputPath, outputPath) ==
    << "-i", inputPath >>
    \o (CASE operation = "audioConvert" ->
                Flag("-b:a", opts.bitrate) \o NumFlag("-ar", opts.sampleRate)
                \o NumFlag("-ac", opts.channels) \o Flag("-af", opts.normalize)
          [] operation = "convert" ->
                Flag("-b:a", opts.bitrate) \o NumFlag("-ar", opts.sampleRate)
          [] operation = "changeBitrate" -> << "-b:a", opts.bitrate >>
          [] OTHER -> <<>>)
    \o << "-y", outputPath >>

\* AudioConvert.node.ts lines 149-164.
AudioConvertArgs(opts, inputPath, outputPath) ==
    << "-i", inputPath >>
    \o Flag("-b:a", opts.bitrate) \o NumFlag("-ar", opts.sampleRate)
    \o NumFlag("-ac", opts.channels) \o Flag("-af", opts.normalize)
    \o << "-y", outputPath >>

\* The conversions' execFileAsync('ffmpeg', args, { timeout: 120_000 }).
ConvertTimeout == 120000
\* AudioConvert's execFileAsync('ffmpeg', args, { timeout: 120_000 }).
AudioConvertTimeout == 120000
\* The mix's execFileAsync('ffmpeg', args, { timeout: 300_000 }).
MixTimeout == 300000
\* execFileAsync('ffprobe', [...]) is given no options: no timeout.
ProbeTimeout == 0

\* Mutant: every operation writes mp3.
OutputExtAlwaysMp3(operation, format, inputExt) == <<"mp3">>

\* Lines 846-856: the output extension.
OutputExt(operation, format, inputExt) ==
    CASE operation = "convert" -> format
      [] operation = "audioConvert" -> IF format # <<>> THEN format ELSE inputExt
      [] OTHER -> inputExt

\* Mutant: AudioConvert keeps the input's format whatever is selected.
AudioConvertOutputExtKeepsInput(format, inputExt) == inputExt

\* AudioConvert.node.ts line 140.
AudioConvertOutputExt(format, inputExt) == IF format # <<>> THEN format ELSE inputExt

\* Lines 927-939.
ConvertJson(l) ==
    [operation |-> l.operation, inputFormat |-> l.inputExt, outputFormat |-> l.outputExt,
     inputSize |-> Len(l.inputBuffer), outputSize |-> Len(l.outputBuffer)]

\* AudioConvert.node.ts lines 186-195; 'auto' stands for a falsy value.
AudioConvertJson(l) ==
    [inputFormat |-> l.inputExt, outputFormat |-> l.outputExt,
     bitrate |-> IF l.opts.bitrate # "" THEN l.opts.bitrate ELSE "auto",
     sampleRate |-> IF l.opts.sampleRate # 0 THEN ToString(l.opts.sampleRate) ELSE "auto",
     channels |-> IF l.opts.channels # 0 THEN ToString(l.opts.channels) ELSE "auto",
     inputSize |-> Len(l.inputBuffer), outputSize |-> Len(l.outputBuffer)]

IsMix(e) == st[e].l.operation = "mixNarrationBgm"

\* Line 947 (AudioConvert 207, part_000 123): the value returned, one
\* branch holding the output items.
ReturnValue(x) == IF x.pc = "returned" THEN << x.returnData >> ELSE <<>>

\* Lines 690 and 947: no item is left, execute() returns [returnData].
Return(e) ==
    /\ st[e].pc = "loop" /\ st[e].i >= st[e].n
    /\ st' = [st EXCEPT ![e].pc = "returned"]
    /\ UNCHANGED <<fs, uuids, temps, mix, conv>>

\* Lines 691-693 and 840-841: the parameters of a conversion item and
\* assertBinaryData, which throws when the property is missing.
FfmpegBeginConvert(e) ==
    /\ st[e].node = "Ffmpeg" /\ st[e].pc = "loop" /\ st[e].i < st[e].n
    /\ \E operation \in ConvertOperations, out \in OutputProperties,
          name \in InputProperties, present \in BOOLEAN, binary \in Binaries :
          LET item == InputItem(name, present, binary, FALSE, NoBinary)
              l == [Locals EXCEPT !.operation = operation,
                                  !.outputBinaryPropertyName = out,
                                  !.binaryPropertyName = name, !.item = item,
                                  !.binaryData = IF HasBinary(item, name)
                                                 THEN item.binary[name] ELSE NoBinary]
              x == [st[e] EXCEPT !.l = l]
          IN  st' = [st EXCEPT ![e] =
                        IF HasBinary(item, name) THEN [x EXCEPT !.pc = "getBuffer"]
                        ELSE ThrowOut(x, NodeOperationError(<<"no binary data">>, x.i))]
    /\ UNCHANGED <<fs, uuids, temps, mix, conv>>

\* AudioConvert.node.ts lines 129-138.
AudioConvertBegin(e) ==
    /\ st[e].node = "AudioConvert" /\ st[e].pc = "loop" /\ st[e].i < st[e].n
    /\ \E out \in OutputProperties, format \in KeepOrFormats, opts \in OptionChoices,
          name \in InputProperties, present \in BOOLEAN, binary \in Binaries :
          LET item == InputItem(name, present, binary, FALSE, NoBinary)
              l == [Locals EXCEPT !.outputBinaryPropertyName = out,
                                  !.format = format, !.opts = opts,
                                  !.binaryPropertyName = name, !.item = item,
                                  !.binaryData = IF HasBinary(item, name)
                                                 THEN item.binary[name] ELSE NoBinary]
              x == [st[e] EXCEPT !.l = l]
          IN  st' = [st EXCEPT ![e] =
                        IF HasBinary(item, name) THEN [x EXCEPT !.pc = "getBuffer"]
                        ELSE ThrowOut(x, NodeOperationError(<<"no binary data">>, x.i))]
    /\ UNCHANGED <<fs, uuids, temps, mix, conv>>

\* Lines 841-861 (AudioConvert 138-144): getBinaryDataBuffer resolves, the
\* extensions, the id and the temp paths are computed.
GetBuffer(e) ==
    /\ st[e].pc = "getBuffer"
    /\ \E format \in (IF st[e].node = "AudioConvert" THEN {st[e].l.format}
                      ELSE IF st[e].l.operation = "convert" THEN Formats
                      ELSE IF st[e].l.operation = "audioConvert" THEN KeepOrFormats
                      ELSE {<<>>}) :
          LET x == st[e]
              inputExt == IF x.node = "AudioConvert"
                          THEN AudioConvert_getExtensionFromBinary(x.l.binaryData)
                          ELSE getExtensionFromBinary(x.l.binaryData)
              outputExt == IF x.node = "AudioConvert"
                           THEN AudioConvertOutputExt(format, inputExt)
                           ELSE OutputExt(x.l.operation, format, inputExt)
              id == randomUUID(uuids)
              inputPath == join(tmpdir, tempName("in", id, inputExt))
              outputPath == join(tmpdir, tempName("out", id, outputExt))
          IN  /\ st' = [st EXCEPT ![e] =
                          [x EXCEPT !.pc = "writeInput",
                                    !.l = [x.l EXCEPT !.inputBuffer = ItemBytes(e, x.i, "in"),
                                                      !.format = format,
                                                      !.inputExt = inputExt,
                                                      !.outputExt = outputExt,
                                                      !.id = id,
                                                      !.inputPath = inputPath,
                                                      !.outputPath = outputPath]]]
              /\ temps' = temps \cup {Temp(e, x.i, "in", inputPath),
                                      Temp(e, x.i, "out", outputPath)}
    /\ uuids' = uuids + 1
    /\ UNCHANGED <<fs, mix, conv>>

\* getBinaryDataBuffer rejects: the error leaves execute(), no try is open.
GetBufferFails(e) ==
    /\ st[e].pc \in {"getBuffer", "getBgmBuffer"}
    /\ st' = [st EXCEPT ![e] = ThrowOut(st[e], PlainError("getBinaryDataBuffer"))]
    /\ UNCHANGED <<fs, uuids, temps, mix, conv>>

\* Lines 865-907 (AudioConvert 147-167): writeFile resolves, the arguments
\* are built and ffmpeg is started.
WriteInput(e) ==
    /\ st[e].pc = "writeInput"
    /\ \E opts \in (IF st[e].node = "AudioConvert" THEN {st[e].l.opts}
                    ELSE IF st[e].l.operation = "audioConvert" THEN OptionChoices
                    ELSE IF st[e].l.operation = "convert" THEN ConvertOptionChoices
                    ELSE {[NoOptions EXCEPT !.bitrate = b] : b \in Bitrates}) :
          LET x == st[e]
              args == IF x.node = "AudioConvert"
                      THEN AudioConvertArgs(opts, x.l.inputPath, x.l.outputPath)
                      ELSE FfmpegArgs(x.l.operation, opts, x.l.inputPath, x.l.outputPath)
              l == [x.l EXCEPT !.opts = opts,
                               !.proc = [cmd |-> "ffmpeg", args |-> args,
                                         timeout |-> IF x.node = "AudioConvert"
                                                     THEN AudioConvertTimeout
                                                     ELSE ConvertTimeout]]
          IN  st' = [st EXCEPT ![e] =
                        [x EXCEPT !.pc = "ffmpeg",
                                  !.l = Logged(l, << Event("write", x.l.inputPath, TRUE),
                                                     ProcEvent("spawn", "ffmpeg", TRUE, NoFailure) >>)]]
    /\ fs' = Written(st[e].l.inputPath, st[e].l.inputBuffer)
    /\ UNCHANGED <<uuids, temps, mix, conv>>

\* writeFile rejects, with or without a truncated file left behind.
WriteInputFails(e) ==
    /\ st[e].pc = "writeInput"
    /\ \E partial \in BOOLEAN :
          fs' = IF partial THEN Written(st[e].l.inputPath, <<"partial">>) ELSE fs
    /\ st' = [st EXCEPT ![e] =
                 Caught(st[e], PlainError("writeFile"),
                        << Event("write", st[e].l.inputPath, FALSE) >>)]
    /\ UNCHANGED <<uuids, temps, mix, conv>>

\* The files ffmpeg was given, as it finds them.
InputsOf(l) ==
    IF l.operation = "mixNarrationBgm" THEN <<l.inputPath, l.bgmPath>> ELSE <<l.inputPath>>
Contents(paths) ==
    [k \in 1..Len(paths) |-> IF Exists(paths[k]) THEN fs[paths[k]] ELSE <<"missing">>]

\* Lines 907 / 917 (790 / 799; AudioConvert 167 / 176): ffmpeg exits with
\* status 0 and has written the output file; readFile is called.
FfmpegSucceeds(e) ==
    /\ st[e].pc = "ffmpeg"
    /\ fs' = Written(st[e].l.outputPath, Encoded(Contents(InputsOf(st[e].l))))
    /\ st' = [st EXCEPT ![e] =
                 [st[e] EXCEPT !.pc = "readOutput",
                               !.l = Logged([st[e].l EXCEPT !.proc = NoProc],
                                            << ProcEvent("exit", "ffmpeg", TRUE, NoFailure) >>)]]
    /\ UNCHANGED <<uuids, temps, mix, conv>>

\* Mutant: a failure of ffmpeg is not thrown, the output is read all the same.
ChildFailsAsIgnored(e, prefix, err, killed) ==
    st' = [st EXCEPT ![e] =
              [st[e] EXCEPT !.pc = "readOutput",
                            !.l = Logged([st[e].l EXCEPT !.proc = NoProc],
                                         << ProcEvent(IF killed THEN "timeout" ELSE "exit",
                                                      st[e].l.proc.cmd, FALSE, err) >>)]]

\* Lines 908-914 (736-742, 791-797; AudioConvert 168-174): the catch around
\* execFileAsync throws a NodeOperationError for the item.
ChildFails(e, prefix, err, killed) ==
    st' = [st EXCEPT ![e] =
              Caught([st[e] EXCEPT !.l.proc = NoProc],
                     ChildFailed(prefix, err, st[e].i),
                     << ProcEvent(IF killed THEN "timeout" ELSE "exit",
                                  st[e].l.proc.cmd, FALSE, err) >>)]

\* ffmpeg exits with a failure, or cannot be started; an output file may be
\* left half written.
FfmpegFails(e) ==
    /\ st[e].pc = "ffmpeg"
    /\ \E stderr \in StderrTexts :
          ChildFails(e, "FFmpeg failed: ",
                     [stderr |-> stderr, message |-> "Command failed: ffmpeg"], FALSE)
    /\ \E partial \in BOOLEAN :
          fs' = IF partial THEN Written(st[e].l.outputPath, <<"partial">>) ELSE fs
    /\ UNCHANGED <<uuids, temps, mix, conv>>

\* The timeout of execFile elapses: the child is killed and the promise
\* rejects.  Only a child started with a timeout can be timed out.
ChildTimesOut(e) ==
    /\ st[e].pc \in {"ffmpeg", "ffprobe"}
    /\ st[e].l.proc.timeout > 0
    /\ \E stderr \in StderrTexts :
          ChildFails(e, IF st[e].l.proc.cmd = "ffmpeg" THEN "FFmpeg failed: "
                        ELSE "ffprobe failed: ",
                     [stderr |-> stderr, message |-> "Command failed: killed"], TRUE)
    /\ \E partial \in BOOLEAN :
          fs' = IF partial /\ st[e].l.proc.cmd = "ffmpeg"
                THEN Written(st[e].l.outputPath, <<"partial">>) ELSE fs
    /\ UNCHANGED <<uuids, temps, mix, conv>>

\* Lines 917-921 (799-806; AudioConvert 176-180): readFile resolves with the
\* bytes of the output file; prepareBinaryData is called.
ReadOutput(e) ==
    /\ st[e].pc = "readOutput"
    /\ Exists(st[e].l.outputPath)
    /\ st' = [st EXCEPT ![e] =
                 [st[e] EXCEPT !.pc = "prepare",
                               !.l = Logged([st[e].l EXCEPT !.outputBuffer = fs[st[e].l.outputPath]],
                                            << ReadEvent(st[e].l.outputPath, TRUE,
                                                         fs[st[e].l.outputPath]) >>)]]
    /\ UNCHANGED <<fs, uuids, temps, mix, conv>>

\* readFile rejects.
ReadOutputFails(e) ==
    /\ st[e].pc = "readOutput"
    /\ st' = [st EXCEPT ![e] =
                 Caught(st[e], PlainError("readFile"),
                        << ReadEvent(st[e].l.outputPath, FALSE, <<>>) >>)]
    /\ UNCHANGED <<fs, uuids, temps, mix, conv>>

\* Mutant: the output binary is built from the input buffer.
OutputBinaryAsInput(l) ==
    [data |-> l.inputBuffer,
     fileName |-> replaceExtension(IF l.binaryData.fileName # <<>>
                                   THEN l.binaryData.fileName ELSE <<"audio">>,
                                   l.outputExt),
     mimeType |-> MIME_TYPES(l.outputExt)]

\* Lines 918-925 (800-810; AudioConvert 177-184): the binary payload that
\* prepareBinaryData builds from the bytes read.
OutputBinary(l) ==
    [data |-> l.outputBuffer,
     fileName |-> replaceExtension(
                      IF l.binaryData.fileName # <<>> THEN l.binaryData.fileName
                      ELSE IF l.operation = "mixNarrationBgm" THEN <<"mixed_audio">>
                      ELSE <<"audio">>,
                      l.outputExt),
     mimeType |-> MIME_TYPES(l.outputExt)]

\* AudioConvert.node.ts lines 177-184.
AudioConvertOutputBinary(l) ==
    [data |-> l.outputBuffer,
     fileName |-> AudioConvert_replaceExtension(
                      IF l.binaryData.fileName # <<>> THEN l.binaryData.fileName
                      ELSE <<"audio">>,
                      l.outputExt),
     mimeType |-> AudioConvert_MIME_TYPES(l.outputExt)]

\* Mutant: every output item paired with the first input item.
OutputItemPairedWithFirst(node, l, i) ==
    [json |-> IF node = "AudioConvert" THEN AudioConvertJson(l)
              ELSE IF l.operation = "mixNarrationBgm"
                   THEN MixJson(l.operation, l.p, l.narDuration, l.tm, Len(l.outputBuffer))
                   ELSE ConvertJson(l),
     binary |-> [n \in {l.outputBinaryPropertyName} |-> OutputBinary(l)],
     pairedItem |-> [item |-> 0]]

\* Lines 927-939 (812-829; AudioConvert 186-200): the output item.
\* An output item built on top of the input item: its json and its binary
\* properties spread into the new ones.
OutputItemCarriedOver(node, l, i) ==
    [json |-> IF node = "AudioConvert" THEN AudioConvertJson(l)
              ELSE IF l.operation = "mixNarrationBgm"
                   THEN MixJson(l.operation, l.p, l.narDuration, l.tm, Len(l.outputBuffer))
                   ELSE ConvertJson(l),
     binary |-> [n \in DOMAIN l.item.binary \cup {l.outputBinaryPropertyName} |->
                    IF n = l.outputBinaryPropertyName
                    THEN IF node = "AudioConvert" THEN AudioConvertOutputBinary(l)
                         ELSE OutputBinary(l)
                    ELSE l.item.binary[n]],
     pairedItem |-> [item |-> i]]

OutputItem(node, l, i) ==
    [json |-> IF node = "AudioConvert" THEN AudioConvertJson(l)
              ELSE IF l.operation = "mixNarrationBgm"
                   THEN MixJson(l.operation, l.p, l.narDuration, l.tm, Len(l.outputBuffer))
                   ELSE ConvertJson(l),
     binary |-> [n \in {l.outputBinaryPropertyName} |->
                    IF node = "AudioConvert" THEN AudioConvertOutputBinary(l)
                    ELSE OutputBinary(l)],
     pairedItem |-> [item |-> i]]

\* prepareBinaryData resolves and the output item is pushed; the finally
\* block starts.
Prepare(e) ==
    /\ st[e].pc = "prepare"
    /\ st' = [st EXCEPT ![e] =
                 [st[e] EXCEPT !.pc = "unlinkInput",
                               !.returnData = Append(st[e].returnData,
                                                     OutputItem(st[e].node, st[e].l, st[e].i)),
                               !.l = Logged(st[e].l, << Event("push", <<>>, TRUE) >>)]]
    /\ UNCHANGED <<fs, uuids, temps, mix, conv>>

\* prepareBinaryData rejects.
PrepareFails(e) ==
    /\ st[e].pc = "prepare"
    /\ st' = [st EXCEPT ![e] =
                 Caught(st[e], PlainError("prepareBinaryData"),
                        << Event("prepare", <<>>, FALSE) >>)]
    /\ UNCHANGED <<fs, uuids, temps, mix, conv>>

\* Mutant: a deletion that fails rejects, and its error leaves execute().
UnlinkThrowsOnFailure(e, path, next) ==
    \E ok \in BOOLEAN :
        /\ fs' = IF ok THEN Removed(path) ELSE fs
        /\ LET x == [st[e] EXCEPT !.unlinks = @ \cup {path},
                                  !.leftBehind = @ \/ (~ok /\ Exists(path)),
                                  !.l = Logged(st[e].l,
                                               << Event("unlink", path, ok /\ Exists(path)) >>)]
           IN  st' = [st EXCEPT ![e] = IF ~ok THEN ThrowOut(x, PlainError("unlink"))
                                       ELSE IF next = "" THEN AfterFinally(x)
                                       ELSE [x EXCEPT !.pc = next]]

\* Mutant: the finally block deletes nothing.
UnlinkAsNoOp(e, path, next) ==
    /\ fs' = fs
    /\ st' = [st EXCEPT ![e] = IF next = "" THEN AfterFinally(st[e])
                                ELSE [st[e] EXCEPT !.pc = next]]

\* `await unlink(path).catch(() => {})`: the file is removed, or the
\* deletion fails and the failure is swallowed.
Unlink(e, path, next) ==
    \E ok \in BOOLEAN :
        /\ fs' = IF ok THEN Removed(path) ELSE fs
        /\ LET x == [st[e] EXCEPT !.unlinks = @ \cup {path},
                                  !.leftBehind = @ \/ (~ok /\ Exists(path)),
                                  !.l = Logged(st[e].l,
                                               << Event("unlink", path, ok /\ Exists(path)) >>)]
           IN  st' = [st EXCEPT ![e] = IF next = "" THEN AfterFinally(x)
                                       ELSE [x EXCEPT !.pc = next]]

\* Lines 942 (831; AudioConvert 202).
UnlinkInput(e) ==
    /\ st[e].pc = "unlinkInput"
    /\ Unlink(e, st[e].l.inputPath, IF IsMix(e) THEN "unlinkBgm" ELSE "unlinkOutput")
    /\ UNCHANGED <<uuids, temps, mix, conv>>

\* Lines 943 (833; AudioConvert 203), and the end of the iteration.
UnlinkOutput(e) ==
    /\ st[e].pc = "unlinkOutput"
    /\ Unlink(e, st[e].l.outputPath, "")
    /\ UNCHANGED <<uuids, temps, mix, conv>>

(***************************************************************************)
(* mixNarrationBgm: Ffmpeg.execute lines 696-837.                          *)
(***************************************************************************)
\* Lines 697-708: the parameters of a mix item and assertBinaryData of the
\* narration.
FfmpegBeginMix(e) ==
    /\ st[e].node = "Ffmpeg" /\ st[e].pc = "loop" /\ st[e].i < st[e].n
    /\ \E out \in OutputProperties, p \in StepMixParams,
          name \in InputProperties, present \in BOOLEAN, binary \in Binaries,
          bgmPresent \in BOOLEAN, bgm \in BgmBinaries :
          LET item == InputItem(name, present, binary, bgmPresent, bgm)
              l == [Locals EXCEPT !.operation = "mixNarrationBgm",
                                  !.outputBinaryPropertyName = out,
                                  !.p = p, !.format = p.mixOutputFormat,
                                  !.binaryPropertyName = name, !.item = item,
                                  !.binaryData = IF HasBinary(item, name)
                                                 THEN item.binary[name] ELSE NoBinary]
              x == [st[e] EXCEPT !.l = l]
          IN  st' = [st EXCEPT ![e] =
                        IF HasBinary(item, name) THEN [x EXCEPT !.pc = "getNarBuffer"]
                        ELSE ThrowOut(x, NodeOperationError(<<"no binary data">>, x.i))]
    /\ UNCHANGED <<fs, uuids, temps, mix, conv>>

\* Mutant: the BGM property is not asserted and the item goes on without it.
GetNarBufferUnasserted(e) ==
    /\ st[e].pc = "getNarBuffer"
    /\ LET x == st[e]
           present == HasBinary(x.l.item, BgmProperty)
           l == [x.l EXCEPT !.inputBuffer = ItemBytes(e, x.i, "nar"),
                            !.inputExt = getExtensionFromBinary(x.l.binaryData),
                            !.bgmBinaryData = IF present THEN x.l.item.binary[BgmProperty]
                                              ELSE NoBinary]
       IN  st' = [st EXCEPT ![e] = [x EXCEPT !.pc = "getBgmBuffer", !.l = l]]
    /\ UNCHANGED <<fs, uuids, temps, mix, conv>>

\* Lines 709-714: the narration buffer is there; assertBinaryData of the
\* BGM throws when that property is missing.
GetNarBuffer(e) ==
    /\ st[e].pc = "getNarBuffer"
    /\ LET x == st[e]
           present == HasBinary(x.l.item, BgmProperty)
           l == [x.l EXCEPT !.inputBuffer = ItemBytes(e, x.i, "nar"),
                            !.inputExt = getExtensionFromBinary(x.l.binaryData),
                            !.bgmBinaryData = IF present THEN x.l.item.binary[BgmProperty]
                                              ELSE NoBinary]
       IN  st' = [st EXCEPT ![e] =
                     IF present THEN [x EXCEPT !.pc = "getBgmBuffer", !.l = l]
                     ELSE ThrowOut([x EXCEPT !.l = l],
                                   NodeOperationError(<<"no binary data">>, x.i))]
    /\ UNCHANGED <<fs, uuids, temps, mix, conv>>

\* getBinaryDataBuffer of the narration rejects.
GetNarBufferFails(e) ==
    /\ st[e].pc = "getNarBuffer"
    /\ st' = [st EXCEPT ![e] = ThrowOut(st[e], PlainError("getBinaryDataBuffer"))]
    /\ UNCHANGED <<fs, uuids, temps, mix, conv>>

\* Lines 714-720: the BGM buffer is there; the id and the three temp paths.
GetBgmBuffer(e) ==
    /\ st[e].pc = "getBgmBuffer"
    /\ LET x == st[e]
           bgmExt == getExtensionFromBinary(x.l.bgmBinaryData)
           id == randomUUID(uuids)
           narPath == join(tmpdir, tempName("nar", id, x.l.inputExt))
           bgmPath == join(tmpdir, tempName("bgm", id, bgmExt))
           outputPath == join(tmpdir, tempName("out", id, x.l.p.mixOutputFormat))
       IN  /\ st' = [st EXCEPT ![e] =
                       [x EXCEPT !.pc = "writeNar",
                                 !.l = [x.l EXCEPT !.bgmBuffer = ItemBytes(e, x.i, "bgm"),
                                                   !.bgmExt = bgmExt,
                                                   !.outputExt = x.l.p.mixOutputFormat,
                                                   !.id = id,
                                                   !.inputPath = narPath,
                                                   !.bgmPath = bgmPath,
                                                   !.outputPath = outputPath]]]
           /\ temps' = temps \cup {Temp(e, x.i, "nar", narPath),
                                   Temp(e, x.i, "bgm", bgmPath),
                                   Temp(e, x.i, "out", outputPath)}
    /\ uuids' = uuids + 1
    /\ UNCHANGED <<fs, mix, conv>>

\* Line 723: the narration is written.
WriteNar(e) ==
    /\ st[e].pc = "writeNar"
    /\ fs' = Written(st[e].l.inputPath, st[e].l.inputBuffer)
    /\ st' = [st EXCEPT ![e] =
                 [st[e] EXCEPT !.pc = "writeBgm",
                               !.l = Logged(st[e].l, << Event("write", st[e].l.inputPath, TRUE) >>)]]
    /\ UNCHANGED <<uuids, temps, mix, conv>>

WriteNarFails(e) ==
    /\ st[e].pc = "writeNar"
    /\ \E partial \in BOOLEAN :
          fs' = IF partial THEN Written(st[e].l.inputPath, <<"partial">>) ELSE fs
    /\ st' = [st EXCEPT ![e] =
                 Caught(st[e], PlainError("writeFile"),
                        << Event("write", st[e].l.inputPath, FALSE) >>)]
    /\ UNCHANGED <<uuids, temps, mix, conv>>

\* The arguments of ffprobe, lines 729-734.
ProbeArgs(narPath) ==
    << "-v", "error", "-show_entries", "format=duration",
       "-of", "default=noprint_wrappers=1:nokey=1", narPath >>

\* Lines 724-734: the BGM is written and ffprobe is started.
WriteBgm(e) ==
    /\ st[e].pc = "writeBgm"
    /\ fs' = Written(st[e].l.bgmPath, st[e].l.bgmBuffer)
    /\ st' = [st EXCEPT ![e] =
                 [st[e] EXCEPT !.pc = "ffprobe",
                               !.l = Logged([st[e].l EXCEPT
                                                !.proc = [cmd |-> "ffprobe",
                                                          args |-> ProbeArgs(st[e].l.inputPath),
                                                          timeout |-> ProbeTimeout]],
                                            << Event("write", st[e].l.bgmPath, TRUE),
                                               ProcEvent("spawn", "ffprobe", TRUE, NoFailure) >>)]]
    /\ UNCHANGED <<uuids, temps, mix, conv>>

WriteBgmFails(e) ==
    /\ st[e].pc = "writeBgm"
    /\ \E partial \in BOOLEAN :
          fs' = IF partial THEN Written(st[e].l.bgmPath, <<"partial">>) ELSE fs
    /\ st' = [st EXCEPT ![e] =
                 Caught(st[e], PlainError("writeFile"),
                        << Event("write", st[e].l.bgmPath, FALSE) >>)]
    /\ UNCHANGED <<uuids, temps, mix, conv>>

\* Lines 735 and 744-790: ffprobe exits with status 0 and the duration on
\* stdout; the timeline, the envelope, the filter graph and the arguments
\* are computed and ffmpeg is started.
FfprobeSucceeds(e) ==
    /\ st[e].pc = "ffprobe"
    /\ \E stdout \in ProbeStdouts :
          LET x == st[e]
              narDuration == parseFloat(trim(stdout))
              tm == CalculateTiming(x.l.p, narDuration)
              volExpr == BuildVolExpr(x.l.p, tm)
              filterComplex == BuildFilterComplex(x.l.p, tm, volExpr)
              args == MixArgs(x.l.p, x.l.inputPath, x.l.bgmPath, x.l.outputPath,
                              filterComplex)
              l == [x.l EXCEPT !.narDuration = narDuration, !.tm = tm,
                               !.proc = [cmd |-> "ffmpeg", args |-> args,
                                         timeout |-> MixTimeout]]
          IN  st' = [st EXCEPT ![e] =
                        [x EXCEPT !.pc = "ffmpeg",
                                  !.l = Logged(l, << ProcEvent("exit", "ffprobe", TRUE, NoFailure),
                                                     ProcEvent("spawn", "ffmpeg", TRUE, NoFailure) >>)]]
    /\ UNCHANGED <<fs, uuids, temps, mix, conv>>

\* Mutant: a failure of ffprobe is taken for a duration of 0 and the mix
\* goes on.
FfprobeFailsAsNoDuration(e) ==
    /\ st[e].pc = "ffprobe"
    /\ LET x == st[e]
           tm == CalculateTiming(x.l.p, 0)
           filterComplex == BuildFilterComplex(x.l.p, tm, BuildVolExpr(x.l.p, tm))
           args == MixArgs(x.l.p, x.l.inputPath, x.l.bgmPath, x.l.outputPath,
                           filterComplex)
           l == [x.l EXCEPT !.tm = tm,
                            !.proc = [cmd |-> "ffmpeg", args |-> args,
                                      timeout |-> MixTimeout]]
       IN  st' = [st EXCEPT ![e] =
                     [x EXCEPT !.pc = "ffmpeg",
                               !.l = Logged(l, << ProcEvent("exit", "ffprobe", FALSE, NoFailure),
                                                  ProcEvent("spawn", "ffmpeg", TRUE, NoFailure) >>)]]
    /\ UNCHANGED <<fs, uuids, temps, mix, conv>>

\* Lines 736-742: ffprobe exits with a failure or cannot be started.
FfprobeFails(e) ==
    /\ st[e].pc = "ffprobe"
    /\ \E stderr \in StderrTexts :
          ChildFails(e, "ffprobe failed: ",
                     [stderr |-> stderr, message |-> "Command failed: ffprobe"], FALSE)
    /\ UNCHANGED <<fs, uuids, temps, mix, conv>>

\* Line 832.
UnlinkBgm(e) ==
    /\ st[e].pc = "unlinkBgm"
    /\ Unlink(e, st[e].l.bgmPath, "unlinkOutput")
    /\ UNCHANGED <<uuids, temps, mix, conv>>

(***************************************************************************)
(* UrlToBinary.execute: part_000 lines 65-124.                             *)
(***************************************************************************)
\* The URLs offered.  A URL is a sequence of tokens; "//", "/", "?" and each
\* percent escape are tokens of their own.  None holds a dot segment.
Urls ==
    { <<"https:", "//", "example.com", "/", "audio", "/", "song", ".", "mp3">>,
      <<"https:", "//", "example.com", "/", "a", " ", "b", "%2F", "c", "?", "x", "/", "y">>,
      <<"https:", "//", "example.com", "/", "dir", "/">>,
      <<"https:", "//", "example.com">>,
      <<"https:", "//", "example.com", "/", "%E0%A4%A">>,
      <<"song", ".", "mp3">>,
      <<>> }
FileNameOptions == {<<>>, <<"my", ".", "wav">>}
MimeTypeOptions == {"", "audio/wav"}
\* What prepareBinaryData detects when it is given no MIME type.
DetectedMimeTypes == {"audio/mpeg", "application/octet-stream"}

\* The index of the first token of s that is in toks, Len(s) + 1 if none.
IndexOfAny(s, toks) ==
    LET hits == {k \in 1..Len(s) : s[k] \in toks}
    IN  IF hits = {} THEN Len(s) + 1 ELSE CHOOSE k \in hits : \A h \in hits : k <= h

\* The URL parser percent-encodes a space of the path.
EncodePathToken(tok) == IF tok = " " THEN "%20" ELSE tok

\* new URL(url): throws unless url is scheme://host...; pathname is the
\* text from the first "/" after the host up to "?" or "#", "/" when empty.
URL(url) ==
    IF Len(url) >= 3 /\ url[1] \in {"http:", "https:"} /\ url[2] = "//"
       /\ url[3] \notin {"/", "?", "#"}
    THEN LET rest == SubSeq(url, 4, Len(url))
             path == SubSeq(rest, 1, IndexOfAny(rest, {"?", "#"}) - 1)
         IN  [ok |-> TRUE,
              pathname |-> IF path = <<>> THEN <<"/">>
                           ELSE [k \in 1..Len(path) |-> EncodePathToken(path[k])]]
    ELSE [ok |-> FALSE, pathname |-> <<>>]

\* decodeURIComponent: each escape is decoded; a truncated escape throws.
DecodeToken(tok) ==
    CASE tok = "%20" -> " "
      [] tok = "%2F" -> "/"
      [] OTHER -> tok
decodeURIComponent(s) ==
    IF \E k \in 1..Len(s) : s[k] = "%E0%A4%A"
    THEN [ok |-> FALSE, value |-> <<>>]
    ELSE [ok |-> TRUE, value |-> [k \in 1..Len(s) |-> DecodeToken(s[k])]]

\* Mutant: the name taken from the whole URL, query included.
DeriveFileNameFromWholeUrl(url, options) ==
    IF options.fileName # <<>> THEN options.fileName
    ELSE LET pathParts == Split(url, "/")
             decoded == decodeURIComponent(pathParts[Len(pathParts)])
         IN  IF decoded.ok /\ decoded.value # <<>> THEN decoded.value
             ELSE <<"download">>

\* Lines 85-94: the file name.
DeriveFileName(url, options) ==
    IF options.fileName # <<>> THEN options.fileName
    ELSE LET urlObj == URL(url)
             pathParts == Split(urlObj.pathname, "/")
             decoded == decodeURIComponent(pathParts[Len(pathParts)])
         IN  IF urlObj.ok /\ decoded.ok /\ decoded.value # <<>> THEN decoded.value
             ELSE <<"download">>

\* Lines 114-119: everything thrown inside the try is rethrown as a
\* NodeOperationError of the item.
DownloadFailed(message, i) ==
    NodeOperationError(<<"Failed to download from URL: ", message>>, i)

\* Lines 70-82: the parameters of the item; the request is sent.
UrlToBinaryBegin(e) ==
    /\ st[e].node = "UrlToBinary" /\ st[e].pc = "loop" /\ st[e].i < st[e].n
    /\ \E url \in Urls, out \in OutputProperties,
          fileName \in FileNameOptions, mimeType \in MimeTypeOptions :
          st' = [st EXCEPT ![e] =
                    [st[e] EXCEPT
                        !.pc = "httpRequest",
                        !.l = [Locals EXCEPT
                                  !.outputBinaryPropertyName = out,
                                  !.url = url,
                                  !.options = [fileName |-> fileName, mimeType |-> mimeType],
                                  !.log = << ProcEvent("request", "httpRequest", TRUE,
                                                       NoFailure) >>]]]
    /\ UNCHANGED <<fs, uuids, temps, mix, conv>>

\* Lines 78-100: the response body is there, the file name is derived and
\* prepareBinaryData is called.
HttpRequestSucceeds(e) ==
    /\ st[e].pc = "httpRequest"
    /\ st' = [st EXCEPT ![e] =
                 [st[e] EXCEPT
                     !.pc = "prepareDownload",
                     !.l = Logged([st[e].l EXCEPT
                                      !.inputBuffer = ItemBytes(e, st[e].i, "http"),
                                      !.fileName = DeriveFileName(st[e].l.url,
                                                                  st[e].l.options)],
                                  << ProcEvent("response", "httpRequest", TRUE, NoFailure) >>)]]
    /\ UNCHANGED <<fs, uuids, temps, mix, conv>>

\* The request rejects.
HttpRequestFails(e) ==
    /\ st[e].pc = "httpRequest"
    /\ st' = [st EXCEPT ![e] =
                 ThrowOut([st[e] EXCEPT
                              !.l = Logged(st[e].l,
                                           << ProcEvent("response", "httpRequest", FALSE,
                                                        NoFailure) >>)],
                          DownloadFailed("Request failed", st[e].i))]
    /\ UNCHANGED <<fs, uuids, temps, mix, conv>>

\* Lines 96-113: prepareBinaryData resolves, with the MIME type it was given
\* or the one it detects, and the output item is pushed.
PrepareDownload(e) ==
    /\ st[e].pc = "prepareDownload"
    /\ \E detected \in DetectedMimeTypes :
          LET l == st[e].l
              binaryData == [data |-> l.inputBuffer, fileName |-> l.fileName,
                             mimeType |-> IF l.options.mimeType # ""
                                          THEN l.options.mimeType ELSE detected]
              item == [json |-> [url |-> l.url, fileName |-> l.fileName,
                                 fileSize |-> Len(l.inputBuffer),
                                 mimeType |-> binaryData.mimeType],
                       binary |-> [n \in {l.outputBinaryPropertyName} |-> binaryData],
                       pairedItem |-> [item |-> st[e].i]]
          IN  st' = [st EXCEPT ![e] =
                        [st[e] EXCEPT !.pc = "loop", !.i = st[e].i + 1,
                                      !.returnData = Append(st[e].returnData, item),
                                      !.l = Logged(l, << Event("push", <<>>, TRUE) >>)]]
    /\ UNCHANGED <<fs, uuids, temps, mix, conv>>

\* prepareBinaryData rejects.
PrepareDownloadFails(e) ==
    /\ st[e].pc = "prepareDownload"
    /\ st' = [st EXCEPT ![e] =
                 ThrowOut([st[e] EXCEPT
                              !.l = Logged(st[e].l, << Event("prepare", <<>>, FALSE) >>)],
                          DownloadFailed("prepareBinaryData", st[e].i))]
    /\ UNCHANGED <<fs, uuids, temps, mix, conv>>

(***************************************************************************)
(* Spec: one execution of a node over up to MaxItems items.                *)
(* ConcSpec: two executions at once, of up to MaxConcItems items each.     *)
(***************************************************************************)
Step(e) ==
    \/ Return(e)
    \/ FfmpegBeginConvert(e)
    \/ AudioConvertBegin(e)
    \/ GetBuffer(e)
    \/ GetBufferFails(e)
    \/ WriteInput(e)
    \/ WriteInputFails(e)
    \/ FfmpegSucceeds(e)
    \/ FfmpegFails(e)
    \/ ChildTimesOut(e)
    \/ ReadOutput(e)
    \/ ReadOutputFails(e)
    \/ Prepare(e)
    \/ PrepareFails(e)
    \/ UnlinkInput(e)
    \/ UnlinkOutput(e)
    \/ FfmpegBeginMix(e)
    \/ GetNarBuffer(e)
    \/ GetNarBufferFails(e)
    \/ GetBgmBuffer(e)
    \/ WriteNar(e)
    \/ WriteNarFails(e)
    \/ WriteBgm(e)
    \/ WriteBgmFails(e)
    \/ FfprobeSucceeds(e)
    \/ FfprobeFails(e)
    \/ UnlinkBgm(e)
    \/ UrlToBinaryBegin(e)
    \/ HttpRequestSucceeds(e)
    \/ HttpRequestFails(e)
    \/ PrepareDownload(e)
    \/ PrepareDownloadFails(e)

Next == \E e \in Execs : Step(e)

Init ==
    /\ \E node \in Nodes, n \in 0..MaxItems :
          st = [e \in Execs |-> IF e = 1 THEN Invoked(node, n) ELSE NotInvoked]
    /\ fs = <<>>
    /\ uuids = 0
    /\ temps = {}
    /\ mix = MixIdle
    /\ conv = ConvIdle

Spec == Init /\ [][Next]_vars

ConcInit ==
    /\ st \in [Execs -> {Invoked(node, n) : node \in TempFileNodes, n \in 1..MaxConcItems}]
    /\ fs = <<>>
    /\ uuids = 0
    /\ temps = {}
    /\ mix = MixIdle
    /\ conv = ConvIdle

\* The workload of ConcSpec: both executions are given the same binaries and
\* the same parameter values, and a failed write or child leaves no file.
SameWorkload(x) ==
    /\ x.l.binaryData \in {NoBinary, [fileName |-> <<"song", ".", "MP3">>,
                                      mimeType |-> "audio/mpeg"]}
    /\ x.l.binaryPropertyName \in {"", "data"}
    /\ x.l.format \in {<<>>, <<"mp3">>}
    /\ x.l.opts.normalize = ""
    /\ x.l.p.mixNormalize = ""
    /\ \A k \in 1..Len(x.l.log) : x.l.log[k].err.stderr = ""

\* One step of execution e on that workload.
OnSameWorkload(e, A) ==
    /\ A
    /\ SameWorkload(st'[e])
    /\ \A q \in DOMAIN fs' : fs'[q] # <<"partial">>

ConcNext ==
    \E e \in Execs :
        \/ OnSameWorkload(e, Return(e))
        \/ OnSameWorkload(e, FfmpegBeginConvert(e))
        \/ OnSameWorkload(e, AudioConvertBegin(e))
        \/ OnSameWorkload(e, GetBuffer(e))
        \/ OnSameWorkload(e, GetBufferFails(e))
        \/ OnSameWorkload(e, WriteInput(e))
        \/ OnSameWorkload(e, WriteInputFails(e))
        \/ OnSameWorkload(e, FfmpegSucceeds(e))
        \/ OnSameWorkload(e, FfmpegFails(e))
        \/ OnSameWorkload(e, ChildTimesOut(e))
        \/ OnSameWorkload(e, ReadOutput(e))
        \/ OnSameWorkload(e, ReadOutputFails(e))
        \/ OnSameWorkload(e, Prepare(e))
        \/ OnSameWorkload(e, PrepareFails(e))
        \/ OnSameWorkload(e, UnlinkInput(e))
        \/ OnSameWorkload(e, UnlinkOutput(e))
        \/ OnSameWorkload(e, FfmpegBeginMix(e))
        \/ OnSameWorkload(e, GetNarBuffer(e))
        \/ OnSameWorkload(e, GetNarBufferFails(e))
        \/ OnSameWorkload(e, GetBgmBuffer(e))
        \/ OnSameWorkload(e, WriteNar(e))
        \/ OnSameWorkload(e, WriteNarFails(e))
        \/ OnSameWorkload(e, WriteBgm(e))
        \/ OnSameWorkload(e, WriteBgmFails(e))
        \/ OnSameWorkload(e, FfprobeSucceeds(e))
        \/ OnSameWorkload(e, FfprobeFails(e))
        \/ OnSameWorkload(e, UnlinkBgm(e))

ConcSpec == ConcInit /\ [][ConcNext]_vars

(***************************************************************************)
(* MixSpec: the computation of lines 744-829 on its own, from the          *)
(* parameters and the probed duration to the reported json.                *)
(***************************************************************************)
\* Durations in ticks: fractions of a millisecond and one whole millisecond.
Durations == 0..MaxDur \cup {TicksPerMs}
Volumes == 0..VolSteps

DefaultOptions == [mixOutputFormat |-> <<"mp3">>, mixBitrate |-> "", mixNormalize |-> ""]

MixParams ==
    { [fadeInSeconds |-> a, introSeconds |-> b, fadeDownSeconds |-> c,
       bgmVolume |-> v, fadeOutSeconds |-> d,
       mixOutputFormat |-> DefaultOptions.mixOutputFormat,
       mixBitrate |-> DefaultOptions.mixBitrate,
       mixNormalize |-> DefaultOptions.mixNormalize] :
        a \in Durations, b \in Durations, c \in Durations, d \in Durations,
        v \in Volumes }
    \cup
    { [fadeInSeconds |-> 1, introSeconds |-> 1, fadeDownSeconds |-> 1,
       bgmVolume |-> 1, fadeOutSeconds |-> 1,
       mixOutputFormat |-> f, mixBitrate |-> b, mixNormalize |-> n] :
        f \in {<<"mp3">>, <<"wav">>}, b \in {"", "128k"}, n \in {"", "loudnorm"} }

MixNarPath == join(tmpdir, tempName("nar", randomUUID(0), <<"mp3">>))
MixBgmPath == join(tmpdir, tempName("bgm", randomUUID(0), <<"mp3">>))
MixOutputPath(p) == join(tmpdir, tempName("out", randomUUID(0), p.mixOutputFormat))


MixInit ==
    /\ mix \in { [MixIdle EXCEPT !.phase = "probed", !.p = p, !.narDuration = d] :
                    p \in MixParams, d \in Durations }
    /\ st = LifeIdle
    /\ fs = <<>>
    /\ uuids = 0
    /\ temps = {}
    /\ conv = ConvIdle

MixCalculateTiming ==
    /\ mix.phase = "probed"
    /\ mix' = [mix EXCEPT !.phase = "timed",
                          !.tm = CalculateTiming(mix.p, mix.narDuration)]
    /\ UNCHANGED <<st, fs, uuids, temps, conv>>

MixBuildVolExpr ==
    /\ mix.phase = "timed"
    /\ mix' = [mix EXCEPT !.phase = "enveloped",
                          !.volExpr = BuildVolExpr(mix.p, mix.tm)]
    /\ UNCHANGED <<st, fs, uuids, temps, conv>>

MixBuildFilterComplex ==
    /\ mix.phase = "enveloped"
    /\ mix' = [mix EXCEPT !.phase = "filtered",
                          !.filterComplex = BuildFilterComplex(mix.p, mix.tm, mix.volExpr)]
    /\ UNCHANGED <<st, fs, uuids, temps, conv>>

MixBuildArgs ==
    /\ mix.phase = "filtered"
    /\ mix' = [mix EXCEPT !.phase = "started",
                          !.args = MixArgs(mix.p, MixNarPath, MixBgmPath,
                                           MixOutputPath(mix.p), mix.filterComplex)]
    /\ UNCHANGED <<st, fs, uuids, temps, conv>>

MixReport ==
    /\ mix.phase = "started"
    /\ mix' = [mix EXCEPT !.phase = "reported",
                          !.json = MixJson("mixNarrationBgm", mix.p, mix.narDuration,
                                           mix.tm, 1)]
    /\ UNCHANGED <<st, fs, uuids, temps, conv>>

MixNext ==
    \/ MixCalculateTiming
    \/ MixBuildVolExpr
    \/ MixBuildFilterComplex
    \/ MixBuildArgs
    \/ MixReport

MixSpec == MixInit /\ [][MixNext]_vars

(***************************************************************************)
(* ConvSpec: the extensions, temp paths, arguments, file name, MIME type   *)
(* and json of one conversion item on their own (Ffmpeg.execute lines      *)
(* 840-939, AudioConvert.execute lines 129-200), over more file names,     *)
(* MIME types, formats and options than Spec draws.                        *)
(***************************************************************************)
FileNames ==
    { <<>>, <<"audio">>, <<"song", ".", "MP3">>, <<"song", ".">>, <<".", "mp3">>,
      <<"a", ".", "b", ".", "WAV">>, <<"a", ".", "b", "/", "c">> }
MimeTypes == {"audio/mpeg", "audio/x-wav", "audio/mp4", "text/plain"}
ConvBinaries == { [fileName |-> f, mimeType |-> m] : f \in FileNames, m \in MimeTypes }

\* The values of outputFormat; acOutputFormat and AudioConvert's
\* outputFormat add Keep Original, ''.
AllFormats == {<<"mp3">>, <<"wav">>, <<"ogg">>, <<"flac">>, <<"aac">>, <<"m4a">>}
AllKeepOrFormats == AllFormats \cup {<<>>}
AllBitrates == {"64k", "128k", "192k", "256k", "320k"}
AllOptions ==
    { [bitrate |-> b, sampleRate |-> r, channels |-> c, normalize |-> n] :
        b \in {"", "192k"}, r \in {0, 48000}, c \in {0, 1}, n \in {"", "loudnorm"} }

\* The parameters of one conversion item, by node and operation.
ConvSettings ==
    { [node |-> "Ffmpeg", operation |-> "convert", format |-> f,
       opts |-> [NoOptions EXCEPT !.bitrate = o.bitrate, !.sampleRate = o.sampleRate]] :
          f \in AllFormats, o \in AllOptions }
    \cup { [node |-> "Ffmpeg", operation |-> "audioConvert", format |-> f, opts |-> o] :
              f \in AllKeepOrFormats, o \in AllOptions }
    \cup { [node |-> "Ffmpeg", operation |-> "changeBitrate", format |-> <<>>,
            opts |-> [NoOptions EXCEPT !.bitrate = b]] : b \in AllBitrates }
    \cup { [node |-> "AudioConvert", operation |-> "", format |-> f, opts |-> o] :
              f \in AllKeepOrFormats, o \in AllOptions }

ConvInit ==
    /\ conv \in { [phase |-> "asserted", node |-> c.node, returnData |-> <<>>,
                   l |-> [Locals EXCEPT !.operation = c.operation,
                                        !.outputBinaryPropertyName = "data",
                                        !.binaryPropertyName = "data",
                                        !.item = InputItem("data", TRUE, b, FALSE, NoBinary),
                                        !.binaryData = b,
                                        !.inputBuffer = ItemBytes(1, 0, "in"),
                                        !.format = c.format,
                                        !.opts = c.opts]] :
                    c \in ConvSettings, b \in ConvBinaries }
    /\ st = LifeIdle
    /\ fs = <<>>
    /\ uuids = 0
    /\ temps = {}
    /\ mix = MixIdle

\* Lines 844-856 (AudioConvert 139-140): the two extensions.
ConvExtensions ==
    /\ conv.phase = "asserted"
    /\ LET inputExt == IF conv.node = "AudioConvert"
                       THEN AudioConvert_getExtensionFromBinary(conv.l.binaryData)
                       ELSE getExtensionFromBinary(conv.l.binaryData)
           outputExt == IF conv.node = "AudioConvert"
                        THEN AudioConvertOutputExt(conv.l.format, inputExt)
                        ELSE OutputExt(conv.l.operation, conv.l.format, inputExt)
       IN  conv' = [conv EXCEPT !.phase = "named",
                                !.l = [conv.l EXCEPT !.inputExt = inputExt,
                                                     !.outputExt = outputExt]]
    /\ UNCHANGED <<st, fs, uuids, temps, mix>>

\* Lines 859-861 (AudioConvert 142-144): the id and the temp paths.
ConvPaths ==
    /\ conv.phase = "named"
    /\ LET id == randomUUID(uuids)
       IN  conv' = [conv EXCEPT
                       !.phase = "pathed",
                       !.l = [conv.l EXCEPT
                                 !.id = id,
                                 !.inputPath = join(tmpdir, tempName("in", id, conv.l.inputExt)),
                                 !.outputPath = join(tmpdir, tempName("out", id, conv.l.outputExt))]]
    /\ uuids' = uuids + 1
    /\ UNCHANGED <<st, fs, temps, mix>>

\* Lines 868-907 (AudioConvert 149-167): the arguments of ffmpeg.
ConvBuildArgs ==
    /\ conv.phase = "pathed"
    /\ LET args == IF conv.node = "AudioConvert"
                   THEN AudioConvertArgs(conv.l.opts, conv.l.inputPath, conv.l.outputPath)
                   ELSE FfmpegArgs(conv.l.operation, conv.l.opts,
                                   conv.l.inputPath, conv.l.outputPath)
       IN  conv' = [conv EXCEPT !.phase = "started",
                                !.l = [conv.l EXCEPT
                                          !.proc = [cmd |-> "ffmpeg", args |-> args,
                                                    timeout |-> IF conv.node = "AudioConvert"
                                                                THEN AudioConvertTimeout
                                                                ELSE ConvertTimeout]]]
    /\ UNCHANGED <<st, fs, uuids, temps, mix>>

\* Lines 917-939 (AudioConvert 176-200): the bytes read, the binary payload
\* and the output item.
ConvPush ==
    /\ conv.phase = "started"
    /\ LET l == [conv.l EXCEPT !.proc = NoProc,
                               !.outputBuffer = Encoded(<<conv.l.inputBuffer>>)]
       IN  conv' = [conv EXCEPT !.phase = "pushed", !.l = l,
                                !.returnData = <<OutputItem(conv.node, l, 0)>>]
    /\ UNCHANGED <<st, fs, uuids, temps, mix>>

ConvNext ==
    \/ ConvExtensions
    \/ ConvPaths
    \/ ConvBuildArgs
    \/ ConvPush

ConvSpec == ConvInit /\ [][ConvNext]_vars

(***************************************************************************)
(* The claims about the mix timeline and envelope (MixSpec).               *)
(***************************************************************************)
MixTimed == mix.phase \in {"timed", "enveloped", "filtered", "started", "reported"}
MixEnveloped == mix.phase \in {"enveloped", "filtered", "started", "reported"}
MixFiltered == mix.phase \in {"filtered", "started", "reported"}

\* The instants of the timeline as the specification gives them, in ticks.
SpecFadeInEnd == mix.p.fadeInSeconds
SpecIntroEnd == mix.p.fadeInSeconds + mix.p.introSeconds
SpecFadeDownEnd == mix.p.fadeInSeconds + mix.p.introSeconds + mix.p.fadeDownSeconds
SpecNarEnd == SpecFadeDownEnd + mix.narDuration
SpecTotal == mix.p.fadeInSeconds + mix.p.introSeconds + mix.p.fadeDownSeconds
             + mix.narDuration + mix.p.fadeOutSeconds

\* The sampled instants: every tick up to one past the end of the mix.
Instants == 0..(SpecTotal + 1)

\* The gain of the background track at tick t.
Gain(t) == Eval(mix.volExpr, Secs(t))

\* The 5-segment envelope of the specification at tick t; a segment is a
\* half-open interval, so an empty one holds no instant.
Envelope(t) ==
    LET v == mix.p.bgmVolume
    IN  IF t < SpecFadeInEnd THEN Frac(t, mix.p.fadeInSeconds)
        ELSE IF t < SpecIntroEnd THEN Whole(1)
        ELSE IF t < SpecFadeDownEnd
             THEN Frac(VolSteps * mix.p.fadeDownSeconds - (VolSteps - v) * (t - SpecIntroEnd),
                       VolSteps * mix.p.fadeDownSeconds)
        ELSE IF t < SpecNarEnd THEN Frac(v, VolSteps)
        ELSE IF t < SpecTotal
             THEN Frac(v * (mix.p.fadeOutSeconds - (t - SpecNarEnd)),
                       VolSteps * mix.p.fadeOutSeconds)
        ELSE Whole(0)

AllRampsPositive ==
    mix.p.fadeInSeconds > 0 /\ mix.p.fadeDownSeconds > 0 /\ mix.p.fadeOutSeconds > 0

\* C2: the timeline is fadeInEnd = fadeIn, introEnd = fadeIn + intro,
\* fadeDownEnd = narDelay = fadeIn + intro + fadeDown, narEnd = narDelay + D,
\* totalDuration = narEnd + fadeOut, and the json reports
\* totalDuration = fadeIn + intro + fadeDown + D + fadeOut.
C2_MixTimeline ==
    /\ MixTimed =>
        /\ mix.tm.fadeInEnd = SpecFadeInEnd
        /\ mix.tm.introEnd = SpecIntroEnd
        /\ mix.tm.fadeDownEnd = SpecFadeDownEnd
        /\ mix.tm.narDelay = SpecFadeDownEnd
        /\ mix.tm.narEnd = mix.tm.narDelay + mix.narDuration
        /\ mix.tm.totalDuration = mix.tm.narEnd + mix.p.fadeOutSeconds
    /\ mix.phase = "reported" => mix.json.totalDuration = SpecTotal

C2_Witness ==
    /\ mix.phase = "reported"
    /\ mix.p.fadeInSeconds > 0 /\ mix.p.introSeconds > 0 /\ mix.p.fadeDownSeconds > 0
    /\ mix.p.fadeOutSeconds > 0 /\ mix.narDuration > 0
    /\ mix.json.totalDuration = SpecTotal

\* C3: with all ramp durations positive, the envelope expression, read with
\* first-matching-branch semantics, has at every instant t >= 0 the value of
\* the 5-segment envelope, and 0 from totalDuration on.
C3_BgmEnvelope ==
    (MixEnveloped /\ AllRampsPositive) =>
        \A t \in Instants : Gain(t) = Envelope(t)

C3_Witness ==
    /\ MixEnveloped /\ AllRampsPositive
    /\ mix.p.introSeconds > 0 /\ mix.narDuration > 0
    /\ mix.p.bgmVolume \notin {0, VolSteps}
    /\ \E t \in Instants : SpecIntroEnd < t /\ t < SpecFadeDownEnd
                           /\ Gain(t) = Envelope(t) /\ Gain(t) # Whole(1)
                           /\ Gain(t) # Frac(mix.p.bgmVolume, VolSteps)

\* How many of the three ramps have a positive duration.
PositiveRamps ==
    (IF mix.p.fadeInSeconds > 0 THEN 1 ELSE 0)
    + (IF mix.p.fadeDownSeconds > 0 THEN 1 ELSE 0)
    + (IF mix.p.fadeOutSeconds > 0 THEN 1 ELSE 0)

SomeRampZero ==
    mix.p.fadeInSeconds = 0 \/ mix.p.fadeDownSeconds = 0 \/ mix.p.fadeOutSeconds = 0

\* No ramp term of a zero duration: one branch per positive ramp beside the
\* two constant ones, and no division by zero.
NoZeroRampTerm ==
    /\ Len(Bounds(mix.volExpr)) = 2 + PositiveRamps
    /\ \A d \in Divisors(mix.volExpr) : d.op = "num" /\ d.val # Whole(0)
    /\ \A t \in Instants : Defined(Gain(t))

\* C4 as stated: a zero ramp leaves no ramp term, and the gain is 1.0 at
\* t = 0 when fadeIn = 0, v at introEnd when fadeDown = 0, and 0 from narEnd
\* on when fadeOut = 0.
C4_AsStated ==
    MixEnveloped =>
        /\ NoZeroRampTerm
        /\ mix.p.fadeInSeconds = 0 => Gain(0) = Whole(1)
        /\ mix.p.fadeDownSeconds = 0 => Gain(SpecIntroEnd) = Vol(mix.p)
        /\ mix.p.fadeOutSeconds = 0 =>
              \A t \in Instants : t >= SpecNarEnd => Gain(t) = Whole(0)

\* C4 (amended): a zero ramp leaves no ramp term and no division by zero, and
\* every instant has the value of the segment that holds it (an empty segment
\* holds none): 1.0 at t = 0 when fadeIn = 0 and intro or fadeDown is
\* positive, v at introEnd when fadeDown = 0 and D or fadeOut is positive,
\* 0 from narEnd on when fadeOut = 0.
C4_ZeroSegmentsCollapse ==
    (MixEnveloped /\ SomeRampZero) =>
        /\ NoZeroRampTerm
        /\ \A t \in Instants : Gain(t) = Envelope(t)
        /\ (mix.p.fadeInSeconds = 0
            /\ mix.p.introSeconds + mix.p.fadeDownSeconds > 0) => Gain(0) = Whole(1)
        /\ (mix.p.fadeDownSeconds = 0
            /\ mix.narDuration + mix.p.fadeOutSeconds > 0) =>
              Gain(SpecIntroEnd) = Vol(mix.p)
        /\ mix.p.fadeOutSeconds = 0 =>
              \A t \in Instants : t >= SpecNarEnd => Gain(t) = Whole(0)

\* All three ramps and the intro are empty and the narration is not: the
\* gain at t = 0 is v.
C4_Witness ==
    /\ MixEnveloped
    /\ mix.p.fadeInSeconds = 0 /\ mix.p.introSeconds = 0
    /\ mix.p.fadeDownSeconds = 0 /\ mix.p.fadeOutSeconds = 0
    /\ mix.narDuration > 0 /\ mix.p.bgmVolume \notin {0, VolSteps}
    /\ Gain(0) = Vol(mix.p)
    /\ Len(Bounds(mix.volExpr)) = 2

\* The adelay filter of the narration chain.
Adelay == mix.filterComplex[1].filters[1]

BgmFilters == mix.filterComplex[2].filters

TrimmedToTotal ==
    /\ mix.filterComplex[2].inputs = <<"1:a">>
    /\ BgmFilters[1].f = "atrim"
    /\ BgmFilters[1].start = Whole(0) /\ BgmFilters[1].end = Secs(SpecTotal)
    /\ BgmFilters[2].f = "asetpts" /\ BgmFilters[2].expr = "PTS-STARTPTS"
    /\ BgmFilters[3].f = "volume" /\ BgmFilters[3].volume = mix.volExpr
    /\ mix.p.fadeOutSeconds > 0 =>
          Bounds(mix.volExpr)[Len(Bounds(mix.volExpr))] = BgmFilters[1].end

\* When the delayed narration ends, in seconds.
NarrationEndsAt == AddQ(Frac(Adelay.delays, MsPerSec), Secs(mix.narDuration))

\* C10 as stated: the background is trimmed to [0, totalDuration), the
\* fade-out ramp ends there, the delayed narration ends no later, and the mix
\* lasts totalDuration.
C10_AsStated ==
    MixFiltered =>
        /\ TrimmedToTotal
        /\ LeQ(NarrationEndsAt, Secs(SpecTotal))
        /\ MixLength(mix.filterComplex, mix.narDuration) = Secs(SpecTotal)

\* The delay is whole milliseconds, or the fade-out lasts 0.5 ms or more.
DelayWithinFadeOut ==
    SpecFadeDownEnd % TicksPerMs = 0 \/ 2 * mix.p.fadeOutSeconds >= TicksPerMs

\* C10 (amended): the background is trimmed to [0, totalDuration) and the
\* fade-out ramp ends there; the delayed narration ends at
\* delayMs/1000 + D, which is no later than totalDuration when narDelay is a
\* whole number of milliseconds or fadeOut is at least 0.5 ms, and then the
\* mix lasts totalDuration; otherwise it lasts at most 0.5 ms longer.
C10_TimeTrimmedBackground ==
    MixFiltered =>
        /\ TrimmedToTotal
        /\ DelayWithinFadeOut =>
              /\ LeQ(NarrationEndsAt, Secs(SpecTotal))
              /\ MixLength(mix.filterComplex, mix.narDuration) = Secs(SpecTotal)
        /\ LeQ(Secs(SpecTotal), MixLength(mix.filterComplex, mix.narDuration))
        /\ LeQ(MixLength(mix.filterComplex, mix.narDuration),
               AddQ(Secs(SpecTotal), Frac(1, 2 * MsPerSec)))

C10_Witness ==
    /\ MixFiltered
    /\ mix.p.fadeOutSeconds > 0 /\ mix.narDuration > 0
    /\ SpecFadeDownEnd % TicksPerMs # 0
    /\ DelayWithinFadeOut
    /\ Adelay.delays * TicksPerMs > SpecFadeDownEnd
    /\ MixLength(mix.filterComplex, mix.narDuration) = Secs(SpecTotal)

(***************************************************************************)
(* The claims about the temporary-file lifecycle and the child processes   *)
(* (Spec, and ConcSpec for two executions at once).                        *)
(***************************************************************************)
Ended(e) == st[e].pc \in {"returned", "thrown"}
\* The binary payload that an output item holds.
Payload(item) == item.binary[CHOOSE n \in DOMAIN item.binary : TRUE]
TempsOf(e) == {x \in temps : x.e = e}
LogOf(e) == st[e].l.log
Before(k) == 1..(k - 1)

\* C1: when the processing of an item has ended, on whatever path, a delete
\* has been issued for every temp path of that item; and once execute() has
\* returned or thrown with no deletion having failed, no temp file created by
\* the execution exists.
C1_TempFilesCleaned ==
    \A e \in Execs :
        /\ \A x \in TempsOf(e) :
              (x.i < st[e].i \/ Ended(e)) => x.path \in st[e].unlinks
        /\ (Ended(e) /\ ~st[e].leftBehind) =>
              \A x \in TempsOf(e) : ~Exists(x.path)

\* A mix whose ffprobe failed after both inputs were written: execute() has
\* thrown, the three paths were deleted and nothing is left.
C1_Witness ==
    \E e \in Execs :
        /\ st[e].pc = "thrown" /\ ~st[e].leftBehind
        /\ st[e].thrown.type = "NodeOperationError"
        /\ st[e].thrown.message # <<"no binary data">>
        /\ st[e].thrown.message[1] = "ffprobe failed: "
        /\ Cardinality({x \in TempsOf(e) : x.i = st[e].i}) = 3
        /\ \A x \in TempsOf(e) : x.path \in st[e].unlinks /\ ~Exists(x.path)
        /\ \E k \in 1..Len(LogOf(e)) :
              LogOf(e)[k] = Event("unlink", st[e].l.bgmPath, TRUE)

\* C5 as stated: every child process that is running was started with a
\* timeout, 120 s for a conversion and 300 s for the mix.
C5_EveryChildHasTimeout ==
    \A e \in Execs :
        st[e].l.proc.cmd # "" =>
            st[e].l.proc.timeout = (IF IsMix(e) THEN MixTimeout ELSE ConvertTimeout)

\* The failures of a child process in the log of the current item.
ChildFailures(e) ==
    {k \in 1..Len(LogOf(e)) : LogOf(e)[k].ev \in {"exit", "timeout"} /\ ~LogOf(e)[k].ok}
Prefix(cmd) == IF cmd = "ffmpeg" THEN "FFmpeg failed: " ELSE "ffprobe failed: "

\* C6: when ffmpeg or ffprobe fails or is killed by its timeout on item i,
\* the pending error is a NodeOperationError with itemIndex i and the message
\* prefix + stderr (prefix + the error's message when stderr is empty); the
\* output is not read, no output item is pushed for i, only the finally
\* block runs and execute() throws that error.
C6_StderrOnFailure ==
    \A e \in Execs : \A k \in ChildFailures(e) :
        LET ev == LogOf(e)[k]
            text == IF ev.err.stderr # "" THEN ev.err.stderr ELSE ev.err.message
        IN  /\ st[e].l.error = NodeOperationError(<<Prefix(ev.cmd), text>>, st[e].i)
            /\ \A j \in 1..Len(LogOf(e)) : LogOf(e)[j].ev \notin {"read", "push"}
            /\ \A j \in 1..Len(st[e].returnData) :
                  st[e].returnData[j].pairedItem.item # st[e].i
            /\ st[e].pc \in {"unlinkInput", "unlinkBgm", "unlinkOutput", "thrown"}
            /\ st[e].pc = "thrown" => st[e].thrown = st[e].l.error

\* The second item's ffmpeg was killed by the timeout with text on stderr.
C6_Witness ==
    \E e \in Execs : \E k \in ChildFailures(e) :
        /\ st[e].pc = "thrown" /\ st[e].i = 1 /\ Len(st[e].returnData) = 1
        /\ LogOf(e)[k].ev = "timeout" /\ LogOf(e)[k].cmd = "ffmpeg"
        /\ LogOf(e)[k].err.stderr # ""
        /\ st[e].thrown.itemIndex = 1
        /\ st[e].thrown.message = <<"FFmpeg failed: ", LogOf(e)[k].err.stderr>>

\* The payloads of the current item, in the order of InputsOf.
PayloadsOf(l) ==
    IF l.operation = "mixNarrationBgm" THEN <<l.inputBuffer, l.bgmBuffer>>
    ELSE <<l.inputBuffer>>

\* C7: per item of Ffmpeg and AudioConvert, every child process is started
\* after each input payload was written, and finds the whole payloads in the
\* files; the output file
\* is read only after ffmpeg exited with success; the output binary holds
\* exactly the bytes read; a deletion comes after that read or after a
\* failure, and nothing but deletions follows a deletion.
C7_LifecycleOrder ==
    \A e \in {x \in Execs : st[x].node \in TempFileNodes} :
        LET l == st[e].l
            log == l.log
        IN  /\ \A k \in 1..Len(log) : log[k].ev = "spawn" =>
                  \A m \in 1..Len(InputsOf(l)) :
                      \E j \in Before(k) : log[j] = Event("write", InputsOf(l)[m], TRUE)
            /\ st[e].pc \in {"ffprobe", "ffmpeg"} => Contents(InputsOf(l)) = PayloadsOf(l)
            /\ \A k \in 1..Len(log) : log[k].ev = "read" =>
                  \E j \in Before(k) : log[j] = ProcEvent("exit", "ffmpeg", TRUE, NoFailure)
            /\ \A k \in 1..Len(log) : log[k].ev = "push" =>
                  \E j \in Before(k) :
                      /\ log[j].ev = "read" /\ log[j].ok
                      /\ Payload(st[e].returnData[Len(st[e].returnData)]).data
                            = log[j].data
            /\ \A k \in 1..Len(log) : log[k].ev = "unlink" =>
                  /\ \E j \in Before(k) :
                        \/ log[j].ev = "read" /\ log[j].ok
                        \/ log[j].ev # "unlink" /\ ~log[j].ok
                  /\ \A j \in (k + 1)..Len(log) : log[j].ev = "unlink"

\* A mix that went through: written, probed, mixed, read, pushed, deleted.
C7_Witness ==
    \E e \in Execs :
        /\ st[e].pc = "returned" /\ IsMix(e)
        /\ Len(st[e].returnData) = st[e].n
        /\ \E k \in 1..Len(LogOf(e)) : LogOf(e)[k].ev = "push"
        /\ \E k \in 1..Len(LogOf(e)) :
              LogOf(e)[k] = Event("unlink", st[e].l.outputPath, TRUE)
        /\ Payload(st[e].returnData[st[e].n]).data
              = Encoded(<<st[e].l.inputBuffer, st[e].l.bgmBuffer>>)

\* What the owner of a temp file puts into it.
OwnPayload(x) ==
    IF x.role # "out" THEN ItemBytes(x.e, x.i, x.role)
    ELSE IF \E y \in temps : y.e = x.e /\ y.i = x.i /\ y.role = "nar"
         THEN Encoded(<<ItemBytes(x.e, x.i, "nar"), ItemBytes(x.e, x.i, "bgm")>>)
         ELSE Encoded(<<ItemBytes(x.e, x.i, "in")>>)

\* C8: no two temp paths coincide, within an item, between items or between
\* executions running at once; an execution writes, reads and deletes only
\* paths of its own, every temp file holds what its owner put there, and
\* what an execution reads back is the output of its own inputs.
C8_UniqueTempFiles ==
    /\ \A x, y \in temps : x.path = y.path => x = y
    /\ \A e \in Execs :
          /\ \A k \in 1..Len(LogOf(e)) : LogOf(e)[k].what # <<>> =>
                \E x \in TempsOf(e) : x.path = LogOf(e)[k].what
          /\ \A q \in st[e].unlinks : \E x \in TempsOf(e) : x.path = q
          /\ \A k \in 1..Len(LogOf(e)) :
                (LogOf(e)[k].ev = "read" /\ LogOf(e)[k].ok) =>
                    \E x \in TempsOf(e) :
                        /\ x.path = LogOf(e)[k].what /\ x.role = "out"
                        /\ LogOf(e)[k].data = OwnPayload(x)
    /\ \A q \in DOMAIN fs :
          \E x \in temps : x.path = q /\ fs[q] \in {OwnPayload(x), <<"partial">>}

\* Two executions at once, each with its output file in place; the first is
\* a mix whose three temp files have the same extension, which is also the
\* extension of the other execution's output.
C8_Witness ==
    /\ IsMix(1)
    /\ st[1].l.inputExt = st[1].l.bgmExt /\ st[1].l.bgmExt = st[1].l.outputExt
    /\ st[2].l.outputExt = st[1].l.outputExt
    /\ st[1].pc = "readOutput" /\ st[2].pc = "readOutput"
    /\ Exists(st[1].l.inputPath) /\ Exists(st[1].l.bgmPath) /\ Exists(st[1].l.outputPath)
    /\ Exists(st[2].l.inputPath) /\ Exists(st[2].l.outputPath)
    /\ Cardinality({x.path : x \in temps}) >= 5

(***************************************************************************)
(* The claims about the filter graph's mixer and the conversions' formats. *)
(***************************************************************************)
\* The places <<chain, position>> of the filters of a given name.
FiltersNamed(name) ==
    {<<c, k>> \in (1..Len(mix.filterComplex)) \X (1..3) :
        /\ k <= Len(mix.filterComplex[c].filters)
        /\ mix.filterComplex[c].filters[k].f = name}

\* C11: the graph has one mixer, amix over [nar][bgm] with normalize=0,
\* heading the chain labelled [out]; a loudnorm filter is in the graph if and
\* only if mixNormalize is non-empty, and then once, right after the mixer in
\* that chain, never in the narration's or the background's chain.
C11_MixAndNormalize ==
    MixFiltered =>
        /\ FiltersNamed("amix") = {<<3, 1>>}
        /\ mix.filterComplex[3].inputs = <<"nar", "bgm">>
        /\ mix.filterComplex[3].filters[1].inputs = 2
        /\ mix.filterComplex[3].filters[1].normalize = 0
        /\ mix.filterComplex[3].output = "out"
        /\ mix.filterComplex[1].output = "nar" /\ mix.filterComplex[2].output = "bgm"
        /\ (FiltersNamed("loudnorm") # {}) <=> (mix.p.mixNormalize # "")
        /\ FiltersNamed("loudnorm") \subseteq {<<3, 2>>}
        /\ Len(mix.filterComplex[3].filters) = (IF mix.p.mixNormalize # "" THEN 2 ELSE 1)

C11_Witness ==
    /\ MixFiltered
    /\ mix.p.mixNormalize = "loudnorm"
    /\ FiltersNamed("loudnorm") = {<<3, 2>>}
    /\ FiltersNamed("amix") = {<<3, 1>>}

\* The extension of a name: the text after its last dot.
ExtensionOf(name) == SubSeq(name, LastIndexOf(name, ".") + 2, Len(name))

\* The extension of an input binary: the lower-cased text after the last
\* dot of its file name, else the one of its MIME type, else bin.
InputExtension(binary) ==
    IF LastIndexOf(binary.fileName, ".") >= 0
    THEN toLowerCase(ExtensionOf(binary.fileName))
    ELSE IF binary.mimeType \in {"audio/mpeg"} THEN <<"mp3">>
    ELSE IF binary.mimeType \in {"audio/wav", "audio/x-wav"} THEN <<"wav">>
    ELSE IF binary.mimeType = "audio/ogg" THEN <<"ogg">>
    ELSE IF binary.mimeType = "audio/flac" THEN <<"flac">>
    ELSE IF binary.mimeType = "audio/aac" THEN <<"aac">>
    ELSE IF binary.mimeType = "audio/mp4" THEN <<"m4a">>
    ELSE <<"bin">>

\* The item that execution e is processing has its temp paths.
HasPaths(e) == st[e].l.id # ""
\* The item that execution e is processing was pushed to returnData.
Pushed(e) == \E k \in 1..Len(LogOf(e)) : LogOf(e)[k].ev = "push"
LastOutput(e) == st[e].returnData[Len(st[e].returnData)]
\* The last segment of a path.
BaseName(path) == path[Len(path)]

\* C12: for changeBitrate the output extension, the reported outputFormat
\* and the extension of the output file name are the input's extension, and
\* ffmpeg is given '-b:a' followed by the selected bitrate.
C12_ChangeBitrateKeepsFormat ==
    \A e \in Execs :
        (st[e].node = "Ffmpeg" /\ st[e].l.operation = "changeBitrate" /\ HasPaths(e)) =>
            /\ st[e].l.outputExt = InputExtension(st[e].l.binaryData)
            /\ st[e].l.outputExt = st[e].l.inputExt
            /\ st[e].l.proc.cmd = "ffmpeg" =>
                  /\ Len(st[e].l.proc.args) = 6
                  /\ st[e].l.proc.args[3] = "-b:a"
                  /\ st[e].l.proc.args[4] = st[e].l.opts.bitrate
                  /\ st[e].l.opts.bitrate \in Bitrates
            /\ Pushed(e) =>
                  /\ LastOutput(e).json.operation = "changeBitrate"
                  /\ LastOutput(e).json.outputFormat = InputExtension(st[e].l.binaryData)
                  /\ LastOutput(e).json.inputFormat = LastOutput(e).json.outputFormat
                  /\ ExtensionOf(Payload(LastOutput(e)).fileName)
                        = InputExtension(st[e].l.binaryData)

\* song.MP3 went through changeBitrate and came back as song.mp3.
C12_Witness ==
    \E e \in Execs :
        /\ st[e].node = "Ffmpeg" /\ st[e].l.operation = "changeBitrate"
        /\ st[e].pc = "returned" /\ Pushed(e)
        /\ st[e].l.binaryData.fileName = <<"song", ".", "MP3">>
        /\ Payload(LastOutput(e)).fileName = <<"song", ".", "mp3">>
        /\ LastOutput(e).json.outputFormat = <<"mp3">>

ConvNamed == conv.phase \in {"named", "pathed", "started", "pushed"}
ConvPathed == conv.phase \in {"pathed", "started", "pushed"}
ConvPushed == conv.phase = "pushed"

\* The MIME types registered for the six formats.
RegisteredMime ==
    [f \in AllFormats |->
        CASE f = <<"mp3">> -> "audio/mpeg"
          [] f = <<"wav">> -> "audio/wav"
          [] f = <<"ogg">> -> "audio/ogg"
          [] f = <<"flac">> -> "audio/flac"
          [] f = <<"aac">> -> "audio/aac"
          [] f = <<"m4a">> -> "audio/mp4"]

\* C13: for convert the output extension, the extension of the output temp
\* file, the reported outputFormat and the extension of the output file name
\* are the selected Output Format, whatever the input is, and the output
\* MIME type is the one registered for that format.
C13_ConvertSelectedFormat ==
    (conv.node = "Ffmpeg" /\ conv.l.operation = "convert") =>
        /\ conv.l.format \in AllFormats
        /\ ConvNamed => conv.l.outputExt = conv.l.format
        /\ ConvPathed =>
              /\ Len(conv.l.outputPath) = Len(tmpdir) + 1
              /\ ExtensionOf(BaseName(conv.l.outputPath)) = conv.l.format
        /\ ConvPushed =>
              /\ conv.returnData[1].json.outputFormat = conv.l.format
              /\ ExtensionOf(Payload(conv.returnData[1]).fileName) = conv.l.format
              /\ Payload(conv.returnData[1]).mimeType = RegisteredMime[conv.l.format]
              /\ Payload(conv.returnData[1]).mimeType # "application/octet-stream"

\* song.MP3, an mp3 by its name, converted to m4a.
C13_Witness ==
    /\ conv.node = "Ffmpeg" /\ conv.l.operation = "convert" /\ ConvPushed
    /\ conv.l.binaryData.fileName = <<"song", ".", "MP3">>
    /\ conv.l.inputExt = <<"mp3">> /\ conv.l.format = <<"m4a">>
    /\ Payload(conv.returnData[1]).fileName = <<"song", ".", "m4a">>
    /\ Payload(conv.returnData[1]).mimeType = "audio/mp4"

\* The conversions that offer Keep Original.
OffersKeepOriginal ==
    conv.node = "AudioConvert" \/ (conv.node = "Ffmpeg" /\ conv.l.operation = "audioConvert")

\* C14: in AudioConvert and in Ffmpeg's audioConvert the input extension is
\* the lower-cased text after the last dot of the file name when the name has
\* a dot, else the extension of the MIME type, else bin; with Keep Original
\* ('') the output extension is the input extension, and with a format
\* selected it is that format.
C14_KeepOriginal ==
    (OffersKeepOriginal /\ ConvNamed) =>
        /\ conv.l.inputExt = InputExtension(conv.l.binaryData)
        /\ conv.l.format = <<>> => conv.l.outputExt = InputExtension(conv.l.binaryData)
        /\ conv.l.format # <<>> => conv.l.outputExt = conv.l.format

\* a.b.WAV with a MIME type that says mp3, kept: wav by its name.
C14_Witness ==
    /\ conv.node = "AudioConvert" /\ ConvPushed
    /\ conv.l.format = <<>>
    /\ conv.l.binaryData = [fileName |-> <<"a", ".", "b", ".", "WAV">>,
                            mimeType |-> "audio/mpeg"]
    /\ conv.l.outputExt = <<"wav">>
    /\ conv.returnData[1].json.outputFormat = <<"wav">>

(***************************************************************************)
(* The claims about UrlToBinary and about execute() as a whole.            *)
(***************************************************************************)
\* The URI-decoded last path segment of each URL offered; <<>> where the
\* segment is empty, the URL cannot be parsed or the decoding fails.
LastPathSegment(url) ==
    CASE url = <<"https:", "//", "example.com", "/", "audio", "/", "song", ".", "mp3">>
            -> <<"song", ".", "mp3">>
      [] url = <<"https:", "//", "example.com", "/", "a", " ", "b", "%2F", "c",
                 "?", "x", "/", "y">>
            -> <<"a", " ", "b", "/", "c">>
      [] OTHER -> <<>>

\* C15: the file name of UrlToBinary is the File Name option when that is
\* non-empty, else the URI-decoded last path segment of the URL, else
\* 'download'; it is never empty; the output item carries it, and a non-empty
\* MIME Type option is the MIME type of the output.
C15_UrlToBinaryFileName ==
    \A e \in Execs :
        (st[e].node = "UrlToBinary" /\ (st[e].pc = "prepareDownload" \/ Pushed(e))) =>
            /\ st[e].l.fileName =
                  (IF st[e].l.options.fileName # <<>> THEN st[e].l.options.fileName
                   ELSE IF LastPathSegment(st[e].l.url) # <<>>
                        THEN LastPathSegment(st[e].l.url)
                        ELSE <<"download">>)
            /\ st[e].l.fileName # <<>>
            /\ Pushed(e) =>
                  /\ LastOutput(e).json.fileName = st[e].l.fileName
                  /\ Payload(LastOutput(e)).fileName = st[e].l.fileName
                  /\ st[e].l.options.mimeType # "" =>
                        /\ Payload(LastOutput(e)).mimeType = st[e].l.options.mimeType
                        /\ LastOutput(e).json.mimeType = st[e].l.options.mimeType

\* A URL with an encoded space and slash in its last segment and a slash in
\* its query, downloaded with a MIME type given and no file name.
C15_Witness ==
    \E e \in Execs :
        /\ st[e].node = "UrlToBinary" /\ Pushed(e)
        /\ st[e].l.options = [fileName |-> <<>>, mimeType |-> "audio/wav"]
        /\ Len(st[e].l.url) = 13
        /\ Payload(LastOutput(e)).fileName = <<"a", " ", "b", "/", "c">>
        /\ Payload(LastOutput(e)).mimeType = "audio/wav"

FinallySteps == {"unlinkInput", "unlinkBgm", "unlinkOutput"}

\* Something failed while execution e processed its current item.
Failed(e) ==
    \/ st[e].l.error # NoError
    \/ st[e].thrown # NoError
    \/ \E k \in 1..Len(LogOf(e)) : LogOf(e)[k].ev # "unlink" /\ ~LogOf(e)[k].ok

\* After a failure execution e only deletes the temp files of the failed
\* item, and does nothing at all once it has thrown.
OnlyCleansUp(e) ==
    st'[e] # st[e] =>
        /\ st[e].pc \in FinallySteps
        /\ st'[e].pc \in FinallySteps \cup {"thrown"}
        /\ st'[e].i = st[e].i /\ st'[e].returnData = st[e].returnData
        /\ TempsOf(e)' = TempsOf(e)
        /\ st'[e].l.proc = NoProc
        /\ Len(st'[e].l.log) = Len(st[e].l.log) + 1
        /\ st'[e].l.log[Len(st'[e].l.log)].ev = "unlink"

\* C16: once the processing of item i has failed, in any node, execute()
\* is on its way to throw and never returns an output, whatever items were
\* processed before; no temp file exists or is created for a later item, no
\* child process runs and no child process or HTTP request is started any
\* more; having thrown, the execution takes no further step.
C16_FailFast ==
    /\ [](\A e \in Execs : Failed(e) =>
              /\ st[e].pc \in FinallySteps \cup {"thrown"}
              /\ st[e].i < st[e].n
              /\ \A x \in TempsOf(e) : x.i <= st[e].i
              /\ st[e].l.proc = NoProc
              /\ st[e].pc = "thrown" =>
                    /\ st[e].thrown.type = "NodeOperationError" => st[e].thrown.itemIndex = st[e].i
                    /\ st[e].thrown # NoError)
    /\ [][\A e \in Execs : Failed(e) => OnlyCleansUp(e)]_vars

\* The second of two items failed after the first was pushed: execute() has
\* thrown and the first output is not returned.
C16_Witness ==
    \E e \in Execs :
        /\ st[e].pc = "thrown" /\ st[e].i = 1 /\ st[e].n = 2
        /\ Len(st[e].returnData) = 1
        /\ st[e].thrown.itemIndex = 1
        /\ Cardinality({x.i : x \in TempsOf(e)}) = 2

\* The items of execution e that have a temp file on disk.
ItemsWithFiles(e) == {x.i : x \in {y \in TempsOf(e) : Exists(y.path)}}
\* The child processes of the current item that were started and have not
\* ended.
Running(e) ==
    Cardinality({k \in 1..Len(LogOf(e)) : LogOf(e)[k].ev = "spawn"})
    - Cardinality({k \in 1..Len(LogOf(e)) : LogOf(e)[k].ev \in {"exit", "timeout"}})

\* Items are taken in index order, one at a time: every earlier item went
\* through, a delete was issued for each of its temp paths before the
\* current item got its own, and at most one child process is running.
OneItemAtATime(e) ==
    /\ \A x \in TempsOf(e) : x.i <= st[e].i
    /\ \A x \in TempsOf(e) : x.i < st[e].i => x.path \in st[e].unlinks
    /\ \A j \in 0..(st[e].i - 1) : \E x \in TempsOf(e) : x.i = j
    /\ Running(e) \in {0, 1}
    /\ Running(e) = 1 <=> st[e].l.proc # NoProc

\* C17 as stated: items one at a time in index order, at most one child
\* process running and at most one item's temp files on disk at any moment.
C17_AsStated ==
    \A e \in {x \in Execs : st[x].node \in TempFileNodes} :
        /\ OneItemAtATime(e)
        /\ Cardinality(ItemsWithFiles(e)) <= 1

\* C17 (amended): items one at a time in index order and at most one child
\* process running; a temp file of an earlier item is on disk only if its
\* deletion failed, so that at most one item's temp files exist as long as no
\* deletion has failed.
C17_Sequential ==
    \A e \in {x \in Execs : st[x].node \in TempFileNodes} :
        /\ OneItemAtATime(e)
        /\ \A x \in TempsOf(e) :
              (x.i < st[e].i /\ Exists(x.path)) => st[e].leftBehind
        /\ ~st[e].leftBehind => Cardinality(ItemsWithFiles(e)) <= 1

\* The second item's ffmpeg is running, with its input on disk, after every
\* file of the first item was deleted.
C17_Witness ==
    \E e \in Execs :
        /\ st[e].node \in TempFileNodes /\ st[e].i = 1 /\ st[e].pc = "ffmpeg"
        /\ ~st[e].leftBehind /\ Running(e) = 1
        /\ ItemsWithFiles(e) = {1}
        /\ \E x \in TempsOf(e) : x.i = 0 /\ x.path \in st[e].unlinks

\* The bytes that the output for item i of execution e is made of.
OutputBytes(e, i, item) ==
    IF st[e].node = "UrlToBinary" THEN ItemBytes(e, i, "http")
    ELSE IF st[e].node = "Ffmpeg" /\ item.json.operation = "mixNarrationBgm"
         THEN Encoded(<<ItemBytes(e, i, "nar"), ItemBytes(e, i, "bgm")>>)
         ELSE Encoded(<<ItemBytes(e, i, "in")>>)

\* C18: when execute() has returned, its value is one branch that holds one
\* output item per input item, in input order: the k-th (from 0) is made
\* from the k-th input item and has pairedItem.item = k, whatever the
\* operations of the items are.
C18_OutputPairing ==
    \A e \in Execs :
        st[e].pc = "returned" =>
            /\ Len(ReturnValue(st[e])) = 1
            /\ Len(ReturnValue(st[e])[1]) = st[e].n
            /\ \A k \in 0..(st[e].n - 1) :
                  LET item == ReturnValue(st[e])[1][k + 1]
                  IN  /\ item.pairedItem.item = k
                      /\ Payload(item).data = OutputBytes(e, k, item)

\* A call whose first item is a mix and whose second is a conversion.
C18_Witness ==
    \E e \in Execs :
        /\ st[e].pc = "returned" /\ st[e].node = "Ffmpeg" /\ st[e].n = 2
        /\ ReturnValue(st[e])[1][1].json.operation = "mixNarrationBgm"
        /\ ReturnValue(st[e])[1][2].json.operation = "convert"
        /\ ReturnValue(st[e])[1][2].pairedItem.item = 1

\* The paths that the finally block of the current item has tried to
\* delete, and the temp paths of the current item.
UnlinksLogged(e) == {LogOf(e)[k].what : k \in {j \in 1..Len(LogOf(e)) : LogOf(e)[j].ev = "unlink"}}
ItemPaths(e) ==
    {st[e].l.inputPath, st[e].l.outputPath}
    \cup (IF IsMix(e) THEN {st[e].l.bgmPath} ELSE {})

\* What failed in the try block of the current item, if anything.
TryFailures(e) ==
    {k \in 1..Len(LogOf(e)) : LogOf(e)[k].ev # "unlink" /\ ~LogOf(e)[k].ok}
\* The error that the failing step of the try block raised.
OriginalError(e, k) ==
    LET ev == LogOf(e)[k]
    IN  CASE ev.ev = "write" -> PlainError("writeFile")
          [] ev.ev = "read" -> PlainError("readFile")
          [] ev.ev = "prepare" -> PlainError("prepareBinaryData")
          [] OTHER -> NodeOperationError(
                          <<Prefix(ev.cmd),
                            IF ev.err.stderr # "" THEN ev.err.stderr ELSE ev.err.message>>,
                          st[e].i)

\* C19: whether deletions fail or not, the finally block tries to delete
\* every temp path of the item, in order, and the outcome is the one of the
\* try block: the item is pushed and the loop goes on (or execute() returns)
\* when nothing failed there, and the error raised there is thrown otherwise.
C19_CleanupFailuresSwallowed ==
    \A e \in {x \in Execs : st[x].node \in TempFileNodes} :
        /\ st[e].pc = "unlinkBgm" => UnlinksLogged(e) = {st[e].l.inputPath}
        /\ st[e].pc = "unlinkOutput" => UnlinksLogged(e) = ItemPaths(e) \ {st[e].l.outputPath}
        /\ (UnlinksLogged(e) # {} /\ st[e].pc \notin FinallySteps) =>
              /\ UnlinksLogged(e) = ItemPaths(e)
              /\ TryFailures(e) = {} =>
                    /\ st[e].pc \in {"loop", "returned"} /\ st[e].thrown = NoError
                    /\ Pushed(e) /\ Len(st[e].returnData) = st[e].i
              /\ \A k \in TryFailures(e) :
                    /\ st[e].pc = "thrown"
                    /\ st[e].thrown = OriginalError(e, k)

\* A mix went through, the deletion of the narration file failed, the other
\* two deletions were attempted and the result was returned.
C19_Witness ==
    \E e \in Execs :
        /\ st[e].pc = "returned" /\ st[e].leftBehind /\ IsMix(e)
        /\ st[e].n = 1 /\ Len(ReturnValue(st[e])[1]) = 1
        /\ Exists(st[e].l.inputPath)
        /\ ~Exists(st[e].l.bgmPath) /\ ~Exists(st[e].l.outputPath)
        /\ UnlinksLogged(e) = ItemPaths(e)

\* The failures of ffprobe in the log of the current item.
ProbeFailures(e) == {k \in ChildFailures(e) : LogOf(e)[k].cmd = "ffprobe"}
InLog(e, ev) == \E k \in 1..Len(LogOf(e)) : LogOf(e)[k] = ev

\* After a failure of ffprobe: the narration and the BGM had been written,
\* ffmpeg is not started and nothing is read for that item, no output file
\* comes to exist and only the finally block runs.
MixStopped(e, k) ==
    /\ IsMix(e)
    /\ \E j \in Before(k) : LogOf(e)[j] = Event("write", st[e].l.inputPath, TRUE)
    /\ \E j \in Before(k) : LogOf(e)[j] = Event("write", st[e].l.bgmPath, TRUE)
    /\ \A j \in 1..Len(LogOf(e)) :
          /\ LogOf(e)[j].ev # "read"
          /\ LogOf(e)[j].ev = "spawn" => LogOf(e)[j].cmd = "ffprobe"
    /\ st[e].l.proc = NoProc
    /\ ~Exists(st[e].l.outputPath)
    /\ st[e].pc \in FinallySteps \cup {"thrown"}

\* C20 as stated: when ffprobe has failed in a mix, ffmpeg is not started,
\* no output is read, and the narration and the BGM files are deleted when
\* the error leaves execute().
C20_AsStated ==
    \A e \in Execs : \A k \in ProbeFailures(e) :
        /\ MixStopped(e, k)
        /\ st[e].pc = "thrown" =>
              ~Exists(st[e].l.inputPath) /\ ~Exists(st[e].l.bgmPath)

\* C20 (amended): when ffprobe has failed in a mix, ffmpeg is not started
\* and no output is read; when the error, 'ffprobe failed: ...', has left
\* execute() a delete was attempted on the narration and on the BGM file:
\* each is gone, unless its own deletion failed.
C20_ProbeFailureStopsMix ==
    \A e \in Execs : \A k \in ProbeFailures(e) :
        /\ MixStopped(e, k)
        /\ st[e].pc = "thrown" =>
              /\ st[e].thrown.message[1] = "ffprobe failed: "
              /\ \A path \in {st[e].l.inputPath, st[e].l.bgmPath} :
                    IF Exists(path) THEN InLog(e, Event("unlink", path, FALSE))
                    ELSE InLog(e, Event("unlink", path, TRUE))

\* ffprobe failed on the second item of a call; both inputs are gone.
C20_Witness ==
    \E e \in Execs : \E k \in ProbeFailures(e) :
        /\ st[e].pc = "thrown" /\ st[e].i = 1
        /\ LogOf(e)[k].err.stderr # ""
        /\ ~Exists(st[e].l.inputPath) /\ ~Exists(st[e].l.bgmPath)
        /\ InLog(e, Event("unlink", st[e].l.bgmPath, TRUE))

(***************************************************************************)
(* The claims about the argument lists of ffmpeg.                          *)
(***************************************************************************)
\* The conversions that take the audio options from the item's parameters.
TakesOptions ==
    conv.node = "AudioConvert"
    \/ (conv.node = "Ffmpeg" /\ conv.l.operation \in {"audioConvert", "convert"})

\* The four options in the order of the argument list, each with the value
\* chosen; '' and 0 are the Auto and Off choices.  convert offers the first
\* two only.
OptionPairs ==
    << [pair |-> <<"-b:a", conv.l.opts.bitrate>>, chosen |-> conv.l.opts.bitrate # ""],
       [pair |-> <<"-ar", ToString(conv.l.opts.sampleRate)>>,
        chosen |-> conv.l.opts.sampleRate # 0],
       [pair |-> <<"-ac", ToString(conv.l.opts.channels)>>,
        chosen |-> conv.l.opts.channels # 0 /\ conv.l.operation # "convert"],
       [pair |-> <<"-af", conv.l.opts.normalize>>,
        chosen |-> conv.l.opts.normalize # "" /\ conv.l.operation # "convert"] >>
IsChosen(x) == x.chosen
ChosenPairs == SelectSeq(OptionPairs, IsChosen)

\* The elements of the list between '-i', inputPath and '-y', outputPath, two
\* by two.
ArgPairs(args) ==
    [k \in 1..((Len(args) - 4) \div 2) |-> <<args[2 * k + 1], args[2 * k + 2]>>]

\* C21: for AudioConvert and for the operations audioConvert and convert the
\* argument list of ffmpeg is '-i', inputPath, then, in this order, '-b:a'
\* and the bitrate iff it is non-empty, '-ar' and the rate iff it is
\* non-zero, '-ac' and the channels iff non-zero, '-af' and the filter iff
\* normalize is non-empty (the last two never for convert), and last '-y',
\* outputPath; nothing else is in the list.
C21_ConversionArgs ==
    (TakesOptions /\ conv.phase = "started") =>
        LET args == conv.l.proc.args
        IN  /\ conv.l.proc.cmd = "ffmpeg"
            /\ Len(args) = 4 + 2 * Len(ChosenPairs)
            /\ args[1] = "-i" /\ args[2] = conv.l.inputPath
            /\ args[Len(args) - 1] = "-y" /\ args[Len(args)] = conv.l.outputPath
            /\ ArgPairs(args) = [k \in 1..Len(ChosenPairs) |-> ChosenPairs[k].pair]

\* AudioConvert with Auto bitrate and channels, a sample rate and the
\* loudness filter: '-ar' and '-af' only.
C21_Witness ==
    /\ conv.node = "AudioConvert" /\ conv.phase = "started"
    /\ conv.l.opts = [bitrate |-> "", sampleRate |-> 48000, channels |-> 0,
                      normalize |-> "loudnorm"]
    /\ Len(conv.l.proc.args) = 8
    /\ ArgPairs(conv.l.proc.args) = << <<"-ar", "48000">>, <<"-af", "loudnorm">> >>

\* The ffmpeg of a mix is running in execution e.
MixRunning(e) == IsMix(e) /\ st[e].l.proc.cmd = "ffmpeg"

\* The positions of a mix argument list that hold an option or an option's
\* text; the others hold the two input paths, the filter graph and the
\* output path.
OptionPositions(args) == (1..(Len(args) - 1)) \ {2, 6, 8}

\* C22: the argument list of the mix is '-i', the narration file (input 0),
\* '-stream_loop', '-1', '-i', the BGM file (input 1), '-filter_complex', the
\* graph, '-map', '[out]', then '-b:a' and mixBitrate iff it is non-empty,
\* and last '-y', outputPath, whose extension is mixOutputFormat; the loop
\* option occurs once, right before the BGM input, and one stream is mapped.
C22_MixArgs ==
    \A e \in Execs :
        MixRunning(e) =>
            LET l == st[e].l
                args == l.proc.args
                n == Len(args)
            IN  /\ n = (IF l.p.mixBitrate # "" THEN 14 ELSE 12)
                /\ args[1] = "-i" /\ args[2] = l.inputPath
                /\ Exists(args[2]) /\ fs[args[2]] = ItemBytes(e, st[e].i, "nar")
                /\ args[3] = "-stream_loop" /\ args[4] = "-1"
                /\ args[5] = "-i" /\ args[6] = l.bgmPath
                /\ Exists(args[6]) /\ fs[args[6]] = ItemBytes(e, st[e].i, "bgm")
                /\ args[2] # args[6]
                /\ args[7] = "-filter_complex"
                /\ args[8][1].inputs = <<"0:a">> /\ args[8][1].output = "nar"
                /\ args[8][2].inputs = <<"1:a">> /\ args[8][2].output = "bgm"
                /\ args[8][3].output = "out"
                /\ args[9] = "-map" /\ args[10] = "[out]"
                /\ \A k \in OptionPositions(args) :
                      /\ args[k] = "-stream_loop" => k = 3
                      /\ args[k] = "-i" => k \in {1, 5}
                      /\ args[k] = "-map" => k = 9
                      /\ args[k] = "-b:a" => (k = 11 /\ l.p.mixBitrate # "")
                /\ l.p.mixBitrate # "" =>
                      args[11] = "-b:a" /\ args[12] = l.p.mixBitrate
                /\ args[n - 1] = "-y" /\ args[n] = l.outputPath
                /\ ExtensionOf(BaseName(l.outputPath)) = l.p.mixOutputFormat
                /\ l.p.mixOutputFormat # <<>>

\* A mix to wav at 128k is running: fourteen arguments.
C22_Witness ==
    \E e \in Execs :
        /\ MixRunning(e) /\ st[e].pc = "ffmpeg"
        /\ st[e].l.p.mixBitrate = "128k" /\ st[e].l.p.mixOutputFormat = <<"wav">>
        /\ Len(st[e].l.proc.args) = 14
        /\ st[e].l.proc.args[11] = "-b:a"
        /\ ExtensionOf(BaseName(st[e].l.proc.args[14])) = <<"wav">>

(***************************************************************************)
(* The claims about the validation of the inputs.                          *)
(***************************************************************************)
\* Execution e of Ffmpeg or AudioConvert has taken up an item.
TakenUp(e) == st[e].node \in TempFileNodes /\ st[e].l.outputBinaryPropertyName # ""
\* The temp paths computed for the current item.
CurrentTemps(e) == {x \in TempsOf(e) : x.i = st[e].i}
\* The error of assertBinaryData.
MissingBinary(i) == NodeOperationError(<<"no binary data">>, i)

\* Nothing was done for the current item: no temp path computed, no file
\* written, no child process started, no output pushed.
NoSideEffect(e) ==
    /\ CurrentTemps(e) = {}
    /\ LogOf(e) = <<>>
    /\ st[e].l.proc = NoProc
    /\ st[e].l.id = ""
    /\ \A q \in DOMAIN fs : \E x \in TempsOf(e) : x.path = q /\ x.i < st[e].i
    /\ Len(st[e].returnData) = st[e].i

\* C23: in Ffmpeg and AudioConvert an item whose input binary property is
\* missing (the narration or the BGM of a mix, the single input otherwise)
\* fails with the error of assertBinaryData, with nothing written and no
\* child process started for it; a temp path, a written file or a started
\* child process of an item means every input of that item was present.
C23_ValidatedFirst ==
    \A e \in Execs :
        TakenUp(e) =>
            /\ st[e].l.binaryData = NoBinary =>
                  /\ st[e].pc = "thrown" /\ st[e].thrown = MissingBinary(st[e].i)
                  /\ NoSideEffect(e)
            /\ (st[e].pc = "thrown" /\ st[e].thrown = MissingBinary(st[e].i)) =>
                  /\ NoSideEffect(e)
                  /\ (st[e].l.binaryData = NoBinary
                      \/ (IsMix(e) /\ st[e].l.bgmBinaryData = NoBinary))
            /\ (CurrentTemps(e) # {} \/ LogOf(e) # <<>> \/ st[e].l.proc # NoProc) =>
                  /\ st[e].l.binaryData # NoBinary
                  /\ IsMix(e) => st[e].l.bgmBinaryData # NoBinary

\* The second item of a call is a mix whose narration is there and whose BGM
\* is missing: execute() has thrown and the item has left no trace.
C23_Witness ==
    \E e \in Execs :
        /\ TakenUp(e) /\ IsMix(e) /\ st[e].i = 1
        /\ st[e].pc = "thrown" /\ st[e].thrown = MissingBinary(1)
        /\ st[e].l.binaryData # NoBinary /\ st[e].l.bgmBinaryData = NoBinary
        /\ st[e].l.inputBuffer # <<>>
        /\ CurrentTemps(e) = {} /\ TempsOf(e) # {}

(***************************************************************************)
(* The claims about the probed duration.                                   *)
(***************************************************************************)
\* A duration that a mix can be built on: a number, and not negative.
ValidDuration(d) == d # NaN /\ d >= 0

\* C24 as stated: the ffmpeg of a mix is started only with a finite,
\* non-negative narration duration, and with a filter graph whose trim end
\* and envelope bounds are numbers; when ffprobe printed no duration the item
\* has failed instead.
C24_ValidDurationOnly ==
    \A e \in Execs :
        MixRunning(e) =>
            /\ ValidDuration(st[e].l.narDuration)
            /\ ValidDuration(st[e].l.tm.totalDuration)
            /\ Defined(st[e].l.proc.args[8][2].filters[1].end)

(***************************************************************************)
(* The claims about the shape of the envelope (MixSpec).                   *)
(***************************************************************************)
RECURSIVE Branch(_, _)
\* The term of the envelope expression that gives the gain at time t.
Branch(x, t) ==
    IF x.op = "if_lt_t"
    THEN IF LtQ(t, x.bound) THEN x.then ELSE Branch(x.else, t)
    ELSE x

\* The value that the gain tends to as time runs up to tick t (t > 0): the
\* term in force one tick before, taken at t.
LeftLimit(t) == Eval(Branch(mix.volExpr, Secs(t - 1)), Secs(t))
ContinuousAt(t) == LeftLimit(t) = Gain(t)

\* The gain is within [0, 1] at every instant, does not fall before introEnd
\* and does not rise from introEnd on.
BoundedAndUnimodal ==
    /\ \A t \in Instants :
          Defined(Gain(t)) /\ LeQ(Whole(0), Gain(t)) /\ LeQ(Gain(t), Whole(1))
    /\ \A t1, t2 \in Instants :
          t1 < t2 =>
              /\ t2 < SpecIntroEnd => LeQ(Gain(t1), Gain(t2))
              /\ t1 >= SpecIntroEnd => LeQ(Gain(t2), Gain(t1))

\* The segment boundaries next to a ramp of positive duration.
RampBoundaries ==
    (IF mix.p.fadeInSeconds > 0 THEN {0, SpecFadeInEnd} ELSE {})
    \cup (IF mix.p.fadeDownSeconds > 0 THEN {SpecIntroEnd, SpecFadeDownEnd} ELSE {})
    \cup (IF mix.p.fadeOutSeconds > 0 THEN {SpecNarEnd, SpecTotal} ELSE {})

\* C25 as stated: the gain is within [0, 1], rises up to introEnd and falls
\* from there on, is continuous at every boundary next to a ramp of positive
\* duration, and is exactly 1.0 at fadeInEnd, v at fadeDownEnd and 0 at
\* totalDuration when the ramp that ends there has a positive duration.
C25_AsStated ==
    MixEnveloped =>
        /\ BoundedAndUnimodal
        /\ \A t \in RampBoundaries \ {0} : ContinuousAt(t)
        /\ mix.p.fadeInSeconds > 0 => Gain(SpecFadeInEnd) = Whole(1)
        /\ mix.p.fadeDownSeconds > 0 => Gain(SpecFadeDownEnd) = Vol(mix.p)
        /\ mix.p.fadeOutSeconds > 0 => Gain(SpecTotal) = Whole(0)

\* The instants at which a ramp of zero duration makes the gain step: from
\* 1.0 to v at introEnd when fadeDown = 0, from v to 0 at narEnd when
\* fadeOut = 0.
Steps ==
    (IF mix.p.fadeDownSeconds = 0 THEN {SpecIntroEnd} ELSE {})
    \cup (IF mix.p.fadeOutSeconds = 0 THEN {SpecNarEnd} ELSE {})

\* C25 (amended): the gain is within [0, 1], rises up to introEnd and falls
\* from there on; it is continuous at every instant but the steps of the
\* zero-length ramps; each positive ramp tends to its end value (1.0, v, 0)
\* at its end, and the gain has that value there unless a step falls on the
\* same instant: 1.0 at fadeInEnd when intro or fadeDown is positive, v at
\* fadeDownEnd when D or fadeOut is positive, 0 at totalDuration.
C25_EnvelopeShape ==
    MixEnveloped =>
        /\ BoundedAndUnimodal
        /\ \A t \in Instants \ {0} : ContinuousAt(t) \/ t \in Steps
        /\ mix.p.fadeInSeconds > 0 =>
              /\ LeftLimit(SpecFadeInEnd) = Whole(1)
              /\ (mix.p.introSeconds > 0 \/ mix.p.fadeDownSeconds > 0) =>
                    Gain(SpecFadeInEnd) = Whole(1)
        /\ mix.p.fadeDownSeconds > 0 =>
              /\ LeftLimit(SpecFadeDownEnd) = Vol(mix.p)
              /\ Gain(SpecIntroEnd) = Whole(1)
              /\ (mix.narDuration > 0 \/ mix.p.fadeOutSeconds > 0) =>
                    Gain(SpecFadeDownEnd) = Vol(mix.p)
        /\ mix.p.fadeOutSeconds > 0 =>
              /\ LeftLimit(SpecTotal) = Whole(0)
              /\ Gain(SpecNarEnd) = Vol(mix.p)
              /\ Gain(SpecTotal) = Whole(0)

\* All five segments are there and v is strictly between 0 and 1: the gain
\* rises to 1.0, falls to v and then to 0, with no step.
C25_Witness ==
    /\ MixEnveloped /\ AllRampsPositive
    /\ mix.p.introSeconds > 0 /\ mix.narDuration > 0
    /\ mix.p.bgmVolume \notin {0, VolSteps}
    /\ mix.p.fadeInSeconds > 1 /\ mix.p.fadeOutSeconds > 1
    /\ Steps = {}
    /\ LtQ(Whole(0), Gain(1)) /\ LtQ(Gain(1), Whole(1))
    /\ Gain(SpecFadeInEnd) = Whole(1) /\ Gain(SpecFadeDownEnd) = Vol(mix.p)
    /\ LtQ(Whole(0), Gain(SpecTotal - 1)) /\ LtQ(Gain(SpecTotal - 1), Vol(mix.p))
    /\ \A t \in Instants \ {0} : ContinuousAt(t)

(***************************************************************************)
(* The claims about the place of the temp files.                           *)
(***************************************************************************)
\* path is tmpdir followed by one segment.
DirectChildOfTmpdir(path) ==
    /\ Len(path) = Len(tmpdir) + 1
    /\ SubSeq(path, 1, Len(tmpdir)) = tmpdir

\* The last segment is ffmpeg_<role>_<id>.<ext> with an extension that holds
\* no dot and no separator.
WellNamed(path, role) ==
    LET name == BaseName(path)
    IN  /\ Len(name) > 5
        /\ SubSeq(name, 1, 5) = <<"ffmpeg_", role, "_", name[4], ".">>
        /\ \A k \in 6..Len(name) : name[k] \notin {".", "/"}

\* The paths that execution e has handed to fs or to a child process while
\* it processed the current item.
PathsUsed(e) ==
    {LogOf(e)[k].what : k \in {j \in 1..Len(LogOf(e)) : LogOf(e)[j].what # <<>>}}
    \cup st[e].unlinks

\* C26 as stated: every temp path computed, written, given to a child
\* process, read or deleted is a direct child of the temp directory named
\* ffmpeg_<role>_<id>.<ext>, whatever the file name and the MIME type of the
\* input are.
C26_TempPathsInTmpdir ==
    /\ \A x \in temps : DirectChildOfTmpdir(x.path) /\ WellNamed(x.path, x.role)
    /\ \A q \in DOMAIN fs : DirectChildOfTmpdir(q)
    /\ \A e \in Execs : \A q \in PathsUsed(e) : DirectChildOfTmpdir(q)

(***************************************************************************)
(* The claims about the two audio-convert entry points (ConvSpec).         *)
(***************************************************************************)
\* What the other entry point computes from the inputs of the item that
\* conv holds: the same binary, format, bitrate, sample rate, channels,
\* normalize and output property, and the same id in the temp paths.
Counterpart ==
    LET toAudioConvert == conv.node = "Ffmpeg"
        b == conv.l.binaryData
        inputExt == IF toAudioConvert THEN AudioConvert_getExtensionFromBinary(b)
                    ELSE getExtensionFromBinary(b)
        outputExt == IF toAudioConvert THEN AudioConvertOutputExt(conv.l.format, inputExt)
                     ELSE OutputExt("audioConvert", conv.l.format, inputExt)
        inputPath == join(tmpdir, tempName("in", conv.l.id, inputExt))
        outputPath == join(tmpdir, tempName("out", conv.l.id, outputExt))
        args == IF toAudioConvert
                THEN AudioConvertArgs(conv.l.opts, inputPath, outputPath)
                ELSE FfmpegArgs("audioConvert", conv.l.opts, inputPath, outputPath)
        l == [conv.l EXCEPT !.operation = IF toAudioConvert THEN "" ELSE "audioConvert",
                            !.inputExt = inputExt, !.outputExt = outputExt,
                            !.inputPath = inputPath, !.outputPath = outputPath]
    IN  [inputExt |-> inputExt, outputExt |-> outputExt,
         proc |-> [cmd |-> "ffmpeg", args |-> args,
                   timeout |-> IF toAudioConvert THEN AudioConvertTimeout
                               ELSE ConvertTimeout],
         binary |-> OutputItem(IF toAudioConvert THEN "AudioConvert" ELSE "Ffmpeg",
                               l, 0).binary]

\* C27: for the same input item and the same output format, bitrate, sample
\* rate, channels and normalize, Ffmpeg's audioConvert and AudioConvert
\* derive the same extensions, start ffmpeg with the same argument list (the
\* id of the temp paths being the same) and the same timeout, and put an
\* output binary with the same file name and MIME type under the same
\* output property.
C27_EntryPointsAgree ==
    OffersKeepOriginal =>
        /\ ConvNamed =>
              /\ conv.l.inputExt = Counterpart.inputExt
              /\ conv.l.outputExt = Counterpart.outputExt
        /\ conv.phase = "started" =>
              /\ conv.l.proc.cmd = Counterpart.proc.cmd
              /\ Len(conv.l.proc.args) = Len(Counterpart.proc.args)
              /\ conv.l.proc.args = Counterpart.proc.args
              /\ conv.l.proc.timeout = Counterpart.proc.timeout
        /\ ConvPushed =>
              /\ DOMAIN conv.returnData[1].binary = DOMAIN Counterpart.binary
              /\ Payload(conv.returnData[1]).fileName
                    = Payload(Counterpart).fileName
              /\ Payload(conv.returnData[1]).mimeType
                    = Payload(Counterpart).mimeType
              /\ Payload(conv.returnData[1]).data = Payload(Counterpart).data

\* Ffmpeg's audioConvert on a nameless m4a with Keep Original and all four
\* options chosen: audio.m4a, as AudioConvert gives it.
C27_Witness ==
    /\ conv.node = "Ffmpeg" /\ conv.l.operation = "audioConvert" /\ ConvPushed
    /\ conv.l.binaryData = [fileName |-> <<>>, mimeType |-> "audio/mp4"]
    /\ conv.l.format = <<>>
    /\ conv.l.opts = [bitrate |-> "192k", sampleRate |-> 48000, channels |-> 1,
                      normalize |-> "loudnorm"]
    /\ Payload(conv.returnData[1]).fileName = <<"audio", ".", "m4a">>
    /\ Payload(Counterpart).fileName = <<"audio", ".", "m4a">>
    /\ Payload(Counterpart).mimeType = "audio/mp4"

(***************************************************************************)
(* The frame of an execution: what it reads and what it hands on.          *)
(***************************************************************************)
\* The keys of the json of an output item, by node and operation (Ffmpeg
\* lines 812-829 and 927-939, AudioConvert lines 186-200).
SummaryKeys(node, operation) ==
    IF node = "AudioConvert"
    THEN {"inputFormat", "outputFormat", "bitrate", "sampleRate", "channels",
          "inputSize", "outputSize"}
    ELSE IF operation = "mixNarrationBgm"
         THEN {"operation", "narrationDuration", "fadeInSeconds", "introSeconds",
               "fadeDownSeconds", "bgmVolume", "fadeOutSeconds", "totalDuration",
               "outputFormat", "outputSize"}
         ELSE {"operation", "inputFormat", "outputFormat", "inputSize", "outputSize"}

\* An output item is a fresh json and one binary property, whatever item it
\* was made of.
FreshItem(node, item) ==
    /\ DOMAIN item = {"json", "binary", "pairedItem"}
    /\ \/ node = "AudioConvert" /\ DOMAIN item.json = SummaryKeys(node, "")
       \/ node = "Ffmpeg" /\ DOMAIN item.json = SummaryKeys(node, item.json.operation)
    /\ DOMAIN item.json \cap DOMAIN InputJson = {}
    /\ Cardinality(DOMAIN item.binary) = 1
    /\ DOMAIN item.binary \subseteq OutputProperties

\* The item just pushed holds the produced file under the output name and
\* nothing of the input item.
OnlyTheProduct(e) ==
    LET l == st[e].l
        out == LastOutput(e)
    IN  /\ DOMAIN out.binary = {l.outputBinaryPropertyName}
        /\ out.binary[l.outputBinaryPropertyName].data = l.outputBuffer
        /\ \A n \in DOMAIN l.item.binary :
              /\ out.binary[l.outputBinaryPropertyName] # l.item.binary[n]
              /\ n # l.outputBinaryPropertyName => n \notin DOMAIN out.binary
        /\ \A k \in DOMAIN l.item.json : k \notin DOMAIN out.json

\* What the execution works on is what the input item holds.
ReadsTheItem(e) ==
    LET l == st[e].l
    IN  /\ DOMAIN l.item.json = DOMAIN InputJson
        /\ "cover" \in DOMAIN l.item.binary
        /\ st[e].pc \notin {"loop", "thrown"} =>
              /\ HasBinary(l.item, l.binaryPropertyName)
              /\ l.binaryData = l.item.binary[l.binaryPropertyName]
        /\ l.bgmBinaryData # NoBinary =>
              /\ HasBinary(l.item, BgmProperty)
              /\ l.bgmBinaryData = l.item.binary[BgmProperty]

FrameOfOutputs ==
    \A e \in Execs :
        st[e].node \in TempFileNodes =>
            /\ \A k \in 1..Len(st[e].returnData) :
                  FreshItem(st[e].node, st[e].returnData[k])
            /\ TakenUp(e) => ReadsTheItem(e)
            /\ TakenUp(e) /\ Pushed(e) => OnlyTheProduct(e)

\* No step of an execution changes the input item it is working on.
InputItemKept ==
    \A e \in Execs :
        st[e].pc # "loop" =>
            /\ st'[e].l.item = st[e].l.item
            /\ st'[e].l.binaryPropertyName = st[e].l.binaryPropertyName

\* C28: execute() does not modify its input items, and every output item is
\* a fresh json with exactly one binary property, named by
\* outputBinaryPropertyName and holding the produced file; neither the json
\* fields of the input item nor its other binary properties (the narration
\* and the BGM among them) are carried over.
C28_Frame == [] FrameOfOutputs /\ [][InputItemKept]_vars

\* A mix read its narration under "audio" and its BGM under "bgm" from an item
\* that also holds a cover, and pushed an item holding only "data".
C28_Witness ==
    \E e \in Execs :
        /\ st[e].node = "Ffmpeg" /\ IsMix(e) /\ st[e].pc = "returned" /\ Pushed(e)
        /\ st[e].l.binaryPropertyName = "audio"
        /\ DOMAIN st[e].l.item.binary = {"audio", "bgm", "cover"}
        /\ DOMAIN LastOutput(e).binary = {"data"}
        /\ Payload(LastOutput(e)).data = st[e].l.outputBuffer
        /\ "title" \in DOMAIN st[e].l.item.json
        /\ "title" \notin DOMAIN LastOutput(e).json

====
